---- MODULE Spec2Model ----
(***************************************************************************)
(* Tick-driven world simulator of Syntax753/tbd: the world graph           *)
(* (Grafitti), the per-actor timetable (Scheduler), the tick loop          *)
(* (ExecutiveDirector.tick driven by GameEngine.parseCommand) and the      *)
(* witnessed-event memory with its enrichment cache (Destiny).             *)
(***************************************************************************)
EXTENDS Integers, Sequences, FiniteSets, TLC

VARIABLES
    rooms,              \* Grafitti.rooms: the ids of the initialized rooms
    adjacency,          \* Grafitti.adjacency: room id -> ordered exits
    q,                  \* the last world-graph query and its results
    scheduled,          \* whether Scheduler.cachedSchedule is not null
    cachedSchedule,     \* Scheduler.cachedSchedule: actor id -> timetable
    scheduleKeys,       \* Object.keys(cachedSchedule) in insertion order
    sq,                 \* the last Scheduler call and what it returned
    added,              \* number of addEvent calls that inserted an event
    held,               \* the schedules work, handleTask and dispatch last returned
    genAI,              \* Destiny.genAI is not null (an API key was configured)
    characters,         \* the Character objects shared by GameState and Destiny
    pendingLLMCalls,    \* Destiny.pendingLLMCalls: actor id -> queued generation, 0 for none
    llm,                \* every generateContent call made so far, with its promise's state
    calls,              \* every getTalkResponse / getEventResponse call made so far
    time,               \* GameState.time
    isGameOver,         \* GameState.isGameOver
    currentRoomId,      \* GameState.currentRoomId: the player's room
    characterPositions, \* Grafitti.characterPositions
    lastTick,           \* the last ExecutiveDirector.tick: actors' rooms before and after
    freeCommands,       \* commands so far that took no game time
    theConnection,      \* llmUtil.theConnection: its state and connection type
    connectionPromise,  \* whether llmUtil._connectionPromise is not null
    generationQueue,    \* every generate call made so far, in call order
    promptCache,        \* promptCache.cache: prompt -> response
    generatedRooms,     \* the rooms LocationScout.work holds before it returns
    cachedRooms         \* LocationScout.cachedRooms, empty for null

graphVars == <<rooms, adjacency>>
schedVars == <<scheduled, cachedSchedule, scheduleKeys, added, held>>
destinyVars == <<genAI, characters, pendingLLMCalls, llm, calls>>
gameVars == <<time, isGameOver, currentRoomId, characterPositions, lastTick,
             freeCommands>>
llmVars == <<theConnection, connectionPromise, generationQueue, promptCache>>
scoutVars == <<generatedRooms, cachedRooms>>
vars == <<rooms, adjacency, q, scheduled, cachedSchedule, scheduleKeys, sq, added, held,
          genAI, characters, pendingLLMCalls, llm, calls,
          time, isGameOver, currentRoomId, characterPositions, lastTick,
          freeCommands, theConnection, connectionPromise, generationQueue, promptCache,
          generatedRooms, cachedRooms>>

-----------------------------------------------------------------------------
(* Values *)

\* null / undefined of the source
Null == "null"

\* Room ids the world-design collaborator may hand over, and an id no room has
RoomIds == {"foyer", "living_room", "dining_room"}
UnknownRoom == "cellar"
AnyRoomId == RoomIds \cup {UnknownRoom}

\* Actor ids of the cast, in the order the cast lists them, and an id no actor has
CharIds == {"c1", "c2"}
CharOrder ==
    << "c1", "c2", "char_0_host/victim", "char_1_butler", "char_2_spinster",
       "char_3_general", "char_4_daughter", "char_5_lawyer", "char_6_doctor",
       "char_7_socialite" >>

\* CastingDirector.getFallbackCast: the ids of the built-in cast
TestCast == SubSeq(CharOrder, 3, 10)
UnknownChar == "ghost"

\* Direction labels, given to a room's exits in insertion order
DirNames == <<"north", "east", "south", "west", "up", "down">>

\* Largest number of exits of one room
MaxExits == 2

-----------------------------------------------------------------------------
(* Grafitti: the world graph *)

\* Ordered lists of pairwise different exit targets, at most n long
TargetLists(n) ==
    UNION { { s \in [1..k -> AnyRoomId] :
                \A i, j \in 1..k : i # j => s[i] # s[j] } : k \in 0..n }

\* Room.exits as Object.entries sees it: direction/target pairs in insertion order
ExitsOf(targets) ==
    [i \in 1..Len(targets) |-> [dir |-> DirNames[i], to |-> targets[i]]]

\* adjacency.get(id).values(), or the empty list for an id without adjacency
ExitValues(id) ==
    IF id \in DOMAIN adjacency
    THEN [i \in 1..Len(adjacency[id]) |-> adjacency[id][i].to]
    ELSE <<>>

\* Grafitti.areConnected
AreConnected(roomA, roomB) ==
    IF roomA \notin DOMAIN adjacency THEN FALSE
    ELSE \E i \in 1..Len(adjacency[roomA]) : adjacency[roomA][i].to = roomB

\* getDirection looking only at exits that lead to a room of the graph
GetDirectionAmongRooms(fromId, toId) ==
    IF fromId \notin DOMAIN adjacency THEN Null
    ELSE LET hits == {i \in 1..Len(adjacency[fromId]) :
                         adjacency[fromId][i].to = toId /\ toId \in rooms}
         IN  IF hits = {} THEN Null
             ELSE adjacency[fromId][CHOOSE i \in hits : \A j \in hits : i <= j].dir

\* Grafitti.getDirection: the label of the first exit that leads to toId
GetDirection(fromId, toId) ==
    IF fromId \notin DOMAIN adjacency THEN Null
    ELSE LET hits == {i \in 1..Len(adjacency[fromId]) : adjacency[fromId][i].to = toId}
         IN  IF hits = {} THEN Null
             ELSE adjacency[fromId][CHOOSE i \in hits : \A j \in hits : i <= j].dir

\* The for-loop of findPath over one room's exits: unvisited neighbours are
\* marked and queued with the path extended by them
RECURSIVE VisitExits(_, _, _, _, _)
VisitExits(exits, i, path, queue, visited) ==
    IF i > Len(exits) THEN [queue |-> queue, visited |-> visited]
    ELSE IF exits[i] \in visited
         THEN VisitExits(exits, i + 1, path, queue, visited)
         ELSE VisitExits(exits, i + 1, path,
                         Append(queue, [id |-> exits[i], path |-> Append(path, exits[i])]),
                         visited \cup {exits[i]})

\* The while-loop of findPath
RECURSIVE BfsLoop(_, _, _)
BfsLoop(queue, visited, targetId) ==
    IF Len(queue) = 0 THEN <<>>
    ELSE LET head == Head(queue)
             rest == Tail(queue)
         IN  IF head.id = targetId THEN head.path
             ELSE IF head.id \notin DOMAIN adjacency
                  THEN BfsLoop(rest, visited, targetId)
                  ELSE LET r == VisitExits(ExitValues(head.id), 1, head.path, rest, visited)
                       IN  BfsLoop(r.queue, r.visited, targetId)

\* findPath with the search started from a path that already lists the start
FindPathListingStart(startId, targetId) ==
    IF startId = targetId THEN <<>>
    ELSE IF startId \notin rooms \/ targetId \notin rooms THEN <<>>
    ELSE BfsLoop(<<[id |-> startId, path |-> <<startId>>]>>, {startId}, targetId)

\* findPath without the check that the target is a room of the graph
FindPathToAnyId(startId, targetId) ==
    IF startId = targetId THEN <<>>
    ELSE IF startId \notin rooms THEN <<>>
    ELSE BfsLoop(<<[id |-> startId, path |-> <<>>]>>, {startId}, targetId)

\* findPath with the rooms the actors stand in taken as visited
FindPathAroundActors(startId, targetId) ==
    IF startId = targetId THEN <<>>
    ELSE IF startId \notin rooms \/ targetId \notin rooms THEN <<>>
    ELSE BfsLoop(<<[id |-> startId, path |-> <<>>]>>,
                 {startId} \cup ({characterPositions[c] : c \in DOMAIN characterPositions}
                                    \ {targetId}),
                 targetId)

FindPath(startId, targetId) ==
    IF startId = targetId THEN <<>>
    ELSE IF startId \notin rooms \/ targetId \notin rooms THEN <<>>
    ELSE BfsLoop(<<[id |-> startId, path |-> <<>>]>>, {startId}, targetId)

\* getNextStep with the hop taken from the wrong end of the path
GetNextStepLastHop(fromId, toId) ==
    LET path == FindPath(fromId, toId)
    IN  IF Len(path) > 0 THEN path[Len(path)] ELSE Null

GetNextStep(fromId, toId) ==
    LET path == FindPath(fromId, toId)
    IN  IF Len(path) > 0 THEN path[1] ELSE Null

\* Grafitti.getTravelTime
GetTravelTime(fromId, toId) == Len(FindPath(fromId, toId)) * 5

-----------------------------------------------------------------------------
(* Wall-clock strings. A time string is the list of its characters, so that *)
(* parsing (split(':').map(Number)), formatting (padStart) and string       *)
(* comparison (localeCompare) are what the source computes.                 *)

Digits == <<"0", "1", "2", "3", "4", "5", "6", "7", "8", "9">>

DigitOf == [c \in {Digits[i] : i \in 1..10} |-> CHOOSE d \in 0..9 : Digits[d + 1] = c]
DigitValue(c) == DigitOf[c]

\* Number("18") = 18, Number("") = 0
RECURSIVE Num(_)
Num(chars) ==
    IF Len(chars) = 0 THEN 0
    ELSE 10 * Num(SubSeq(chars, 1, Len(chars) - 1)) + DigitValue(chars[Len(chars)])

\* index of the ':' of a time string
ColonAt(timeStr) == CHOOSE i \in 1..Len(timeStr) : timeStr[i] = ":"

HourOf(timeStr) == Num(SubSeq(timeStr, 1, ColonAt(timeStr) - 1))
MinuteOf(timeStr) == Num(SubSeq(timeStr, ColonAt(timeStr) + 1, Len(timeStr)))

\* String(n).padStart(2, '0') for n < 100
Pad2(n) == <<Digits[(n \div 10) + 1], Digits[(n % 10) + 1]>>

\* Scheduler.timeToMinutes
TimeToMinutes(timeStr) == HourOf(timeStr) * 60 + MinuteOf(timeStr)

\* Scheduler.minutesToTime
MinutesToTime(minutes) == Pad2(minutes \div 60) \o <<":">> \o Pad2(minutes % 60)

\* Collation rank of a character: punctuation sorts before the digits
CharRank(c) == IF c = ":" THEN 0 ELSE DigitValue(c) + 1

\* a.localeCompare(b) on time strings: -1, 0 or 1
RECURSIVE LocaleCompare(_, _)
LocaleCompare(a, b) ==
    IF Len(a) = 0 /\ Len(b) = 0 THEN 0
    ELSE IF Len(a) = 0 THEN -1
    ELSE IF Len(b) = 0 THEN 1
    ELSE IF CharRank(a[1]) < CharRank(b[1]) THEN -1
    ELSE IF CharRank(a[1]) > CharRank(b[1]) THEN 1
    ELSE LocaleCompare(Tail(a), Tail(b))

\* The literal "HH:MM"
T(h, m) == Pad2(h) \o <<":">> \o Pad2(m)

-----------------------------------------------------------------------------
(* Scheduler: the per-actor timetable *)

Event(timeStr, action, locationId) ==
    [time |-> timeStr, action |-> action, locationId |-> locationId]

\* The step of a sort that keeps one entry per time string: e takes the place
\* of an entry with the same time
RECURSIVE InsertSortedOverTies(_, _)
InsertSortedOverTies(sorted, e) ==
    IF Len(sorted) = 0 THEN <<e>>
    ELSE IF LocaleCompare(sorted[Len(sorted)].time, e.time) = 0
         THEN Append(SubSeq(sorted, 1, Len(sorted) - 1), e)
    ELSE IF LocaleCompare(sorted[Len(sorted)].time, e.time) < 0 THEN Append(sorted, e)
    ELSE Append(InsertSortedOverTies(SubSeq(sorted, 1, Len(sorted) - 1), e),
                sorted[Len(sorted)])

\* One step of the stable sort: e goes behind every entry that does not sort after it
RECURSIVE InsertSorted(_, _)
InsertSorted(sorted, e) ==
    IF Len(sorted) = 0 THEN <<e>>
    ELSE IF LocaleCompare(sorted[Len(sorted)].time, e.time) <= 0 THEN Append(sorted, e)
    ELSE Append(InsertSorted(SubSeq(sorted, 1, Len(sorted) - 1), e), sorted[Len(sorted)])

\* events.sort((a, b) => a.time.localeCompare(b.time)); Array.prototype.sort is stable
RECURSIVE SortByTime(_)
SortByTime(events) ==
    IF Len(events) = 0 THEN <<>>
    ELSE InsertSorted(SortByTime(SubSeq(events, 1, Len(events) - 1)), events[Len(events)])

\* Math.round(minutes / 5) * 5 for whole minutes
NormalizeMinutes(minutes) == ((minutes + 2) \div 5) * 5

NormalizeEvent(event) ==
    [event EXCEPT !.time = MinutesToTime(NormalizeMinutes(TimeToMinutes(event.time)))]

BaseTimeline ==
    << Event(T(18, 0), "Arrives at the venue", "foyer"),
       Event(T(19, 0), "Listens to the Will Announcement", "living_room"),
       Event(T(20, 0), "Eats Dinner", "dining_room") >>

VictimTimeline ==
    << Event(T(18, 0), "Greets guests", "foyer"),
       Event(T(19, 0), "Announces Will", "living_room"),
       Event(T(0, 0), "DIES", "dining_room") >>

ButlerEvent == Event(T(22, 30), "Poisons the brandy", "living_room")

IsButler(role) == role = "Butler"
\* role.includes('Victim'), on the roles of the casts
IsVictim(role) == role \in {"Host/Victim", "Victim"}

\* Scheduler.getTestSchedule
TestScheduleKeys ==
    << "char_1_butler", "char_2_spinster", "char_3_general", "char_4_daughter",
       "char_5_lawyer", "char_6_doctor", "char_7_socialite" >>

TestSchedule ==
    [ char_1_butler |->
        << Event(T(18, 0), "greeting guests at the door", "foyer"),
           Event(T(18, 30), "polishing silver", "butlers_pantry"),
           Event(T(19, 30), "preparing refreshments", "kitchen"),
           Event(T(21, 0), "serving evening drinks", "living_room"),
           Event(T(22, 30), "tidying up for the night", "foyer"),
           Event(T(23, 45), "checking the doors are locked", "foyer") >>,
      char_2_spinster |->
        << Event(T(18, 0), "judging the decor", "foyer"),
           Event(T(18, 40), "snooping through hallways", "guest_corridor"),
           Event(T(19, 30), "eavesdropping on conversations", "living_room"),
           Event(T(21, 0), "peering through keyholes", "upper_landing"),
           Event(T(22, 30), "making notes about everyone", "guest_corridor"),
           Event(T(23, 30), "whispering suspicions", "foyer") >>,
      char_3_general |->
        << Event(T(18, 0), "boasting about past battles", "foyer"),
           Event(T(18, 50), "smoking a cigar", "game_room"),
           Event(T(20, 0), "recounting war stories", "living_room"),
           Event(T(21, 30), "having a brandy nightcap", "living_room"),
           Event(T(23, 0), "pacing restlessly", "masters_study") >>,
      char_4_daughter |->
        << Event(T(18, 0), "making a dramatic entrance", "foyer"),
           Event(T(18, 35), "checking inheritance papers", "masters_study"),
           Event(T(19, 30), "arguing with someone quietly", "living_room"),
           Event(T(21, 0), "drinking heavily", "game_room"),
           Event(T(22, 0), "slipping away unnoticed", "guest_corridor"),
           Event(T(23, 30), "preparing something sinister", "kitchen"),
           Event(T(23, 55), "arriving at the study", "masters_study") >>,
      char_5_lawyer |->
        << Event(T(18, 0), "adjusting his tie nervously", "foyer"),
           Event(T(18, 45), "hiding a contract", "butlers_pantry"),
           Event(T(19, 30), "consulting legal notes", "guest_corridor"),
           Event(T(21, 0), "avoiding certain people", "kitchen"),
           Event(T(22, 30), "making a suspicious phone call", "foyer"),
           Event(T(23, 30), "looking for an alibi", "living_room") >>,
      char_6_doctor |->
        << Event(T(18, 0), "looking for the bar", "foyer"),
           Event(T(18, 20), "mixing a stiff drink", "living_room"),
           Event(T(19, 30), "slurring words slightly", "game_room"),
           Event(T(21, 0), "examining his medical bag", "kitchen"),
           Event(T(22, 30), "stumbling around", "upper_landing"),
           Event(T(23, 30), "passing out in a chair", "living_room") >>,
      char_7_socialite |->
        << Event(T(18, 0), "making a grand entrance", "foyer"),
           Event(T(18, 40), "flirting with the general", "game_room"),
           Event(T(19, 30), "spreading gossip", "living_room"),
           Event(T(21, 0), "making eyes at someone", "upper_landing"),
           Event(T(22, 30), "reapplying lipstick", "guest_corridor"),
           Event(T(23, 30), "looking for a late-night scandal", "foyer") >> ]

\* ids of a cast, in the order of the list
CastIds(cast) == [i \in 1..Len(cast) |-> cast[i].id]

CastMember(cast, id) == cast[CHOOSE i \in 1..Len(cast) : cast[i].id = id]

\* The merge of the dynamic (generated) events into the base timetable of one actor
MergedTimeline(id, dynamic) ==
    IF id \in DOMAIN dynamic
    THEN SortByTime(BaseTimeline \o dynamic[id])
    ELSE BaseTimeline

\* The normalisation pass over one timetable
NormalizedTimeline(events) == [i \in 1..Len(events) |-> NormalizeEvent(events[i])]

\* The fixed plot events and the final sort, for one member of the cast
FixedTimeline(member, events) ==
    LET withButler == IF IsButler(member.role) THEN Append(events, ButlerEvent) ELSE events
        withVictim == IF IsVictim(member.role) THEN VictimTimeline ELSE withButler
    IN  SortByTime(withVictim)

\* The schedule Scheduler.work builds in full mode; dynamic is the parsed
\* answer of the generation (actor id -> events), empty if there was none
FullSchedule(cast, dynamic) ==
    [id \in {cast[i].id : i \in 1..Len(cast)} |->
        FixedTimeline(CastMember(cast, id),
                      NormalizedTimeline(MergedTimeline(id, dynamic)))]

\* The scan keeping the first entry that has started instead of the last
RECURSIVE TargetScanFirstStarted(_, _, _, _)
TargetScanFirstStarted(events, i, currentMinutes, current) ==
    IF i > Len(events) THEN current
    ELSE IF TimeToMinutes(events[i].time) <= currentMinutes THEN i
         ELSE current

\* Scheduler.getTargetEvent: the index of the resolved event, 0 for null
RECURSIVE TargetScan(_, _, _, _)
TargetScan(events, i, currentMinutes, current) ==
    IF i > Len(events) THEN current
    ELSE IF TimeToMinutes(events[i].time) <= currentMinutes
         THEN TargetScan(events, i + 1, currentMinutes, i)
         ELSE current

\* getTargetEvent with the comparison taken strictly: an event starting right
\* now does not count yet
GetTargetEventStrict(events, currentMinutes) == TargetScan(events, 1, currentMinutes - 1, 0)

GetTargetEvent(events, currentMinutes) == TargetScan(events, 1, currentMinutes, 0)

\* The movement intent of Scheduler.tick for one key of the schedule: a list
\* with the intent, or the empty list
IntentOf(charId, currentMinutes, charRooms) ==
    IF charId \notin DOMAIN charRooms THEN <<>>
    ELSE LET events == cachedSchedule[charId]
         IN  IF Len(events) = 0 THEN <<>>
             ELSE LET target == GetTargetEvent(events, currentMinutes)
                  IN  IF target = 0 THEN <<>>
                      ELSE IF charRooms[charId] = events[target].locationId THEN <<>>
                      ELSE << [charId |-> charId,
                               from |-> charRooms[charId],
                               to |-> events[target].locationId] >>

RECURSIVE IntentsFrom(_, _, _, _)
IntentsFrom(keys, i, currentMinutes, charRooms) ==
    IF i > Len(keys) THEN <<>>
    ELSE IntentOf(keys[i], currentMinutes, charRooms)
            \o IntentsFrom(keys, i + 1, currentMinutes, charRooms)

\* Scheduler.tick: characters maps the ids handed over to their currentRoomId
SchedulerTick(currentTime, charRooms) ==
    IF ~scheduled THEN <<>>
    ELSE IntentsFrom(scheduleKeys, 1, TimeToMinutes(currentTime), charRooms)

-----------------------------------------------------------------------------
(* Destiny: the witnessed-event memory and the enrichment cache. A string   *)
(* handed to a caller is the list of its pieces of text. The functions work *)
(* on d, the record of the objects Destiny reads and writes.                *)

TalkUnknown == <<"They don't seem interested in talking.">>
TalkFallback(charId) == <<charId, " looks at you but says nothing.">>
EventUnknown == <<"They don't remember.">>
FactualFallback(memory) ==
    <<"I saw ", memory.witnessedCharId, " ", memory.action, " in the ",
      memory.roomId, " around ">> \o memory.time \o <<".">>

\* String.prototype.trim on a text whose blank pieces are " "
RECURSIVE TrimStart(_)
TrimStart(text) ==
    IF Len(text) > 0 /\ text[1] = " " THEN TrimStart(Tail(text)) ELSE text

RECURSIVE TrimEnd(_)
TrimEnd(text) ==
    IF Len(text) > 0 /\ text[Len(text)] = " "
    THEN TrimEnd(SubSeq(text, 1, Len(text) - 1)) ELSE text

Trim(text) == TrimEnd(TrimStart(text))

\* A place of the table calls that holds no call
NoCall ==
    [op |-> "none", charId |-> Null, memoryAt |-> <<>>, promise |-> "none",
     typeof |-> "undefined", value |-> <<>>, awaited |-> 0, made |-> 0, noPool |-> FALSE, cold |-> FALSE,
     joined |-> 0, sawFail |-> FALSE, sawQueuedFail |-> FALSE]

\* The calls that are still pending: a settled call has handed its outcome to
\* its caller and is kept no longer than the step that settled it
PendingCalls ==
    [k \in DOMAIN calls |->
        IF calls[k].promise # "pending" THEN NoCall
        ELSE IF calls[k].joined # 0 /\ calls[calls[k].joined].promise # "pending"
        THEN [calls[k] EXCEPT !.joined = 0]
        ELSE calls[k]]

\* last is the generateContent call made last; full tells that more calls were
\* asked for than the tables llm and calls hold
DestinyState ==
    [characters |-> characters, pendingLLMCalls |-> pendingLLMCalls,
     llm |-> llm, calls |-> PendingCalls, last |-> 1, full |-> FALSE]

\* A place of the table llm that holds no call in flight
NoJob ==
    [kind |-> "none", charId |-> Null, by |-> 0, queued |-> FALSE,
     memoryAt |-> <<>>, waiters |-> <<>>, promise |-> "none"]

FreeJobs(d) == {j \in DOMAIN d.llm : d.llm[j].promise = "none"}

\* model.generateContent(prompt): one more call to the collaborator is in flight.
\* by is the getTalkResponse / getEventResponse call that made it, 0 for none
GenerateContent(d, kind, charId, by, queued, memoryAt) ==
    IF FreeJobs(d) = {} THEN [d EXCEPT !.full = TRUE]
    ELSE LET j == CHOOSE x \in FreeJobs(d) : \A y \in FreeJobs(d) : x <= y
             d1 == [d EXCEPT !.llm[j] = [kind |-> kind, charId |-> charId, by |-> by,
                                         queued |-> queued, memoryAt |-> memoryAt,
                                         waiters |-> <<>>, promise |-> "pending"],
                             !.last = j]
         IN  IF by = 0 THEN d1 ELSE [d1 EXCEPT !.calls[by].made = @ + 1]

\* pendingLLMCalls.has(charId)
HasPending(d, charId) ==
    charId \in DOMAIN d.pendingLLMCalls /\ d.pendingLLMCalls[charId] # 0

\* Destiny.queueResponseGeneration
QueueResponseGeneration(d, charId, by) ==
    IF HasPending(d, charId) THEN d
    ELSE IF charId \notin DOMAIN d.characters \/ ~genAI THEN d
    ELSE LET d1 == GenerateContent(d, "pool", charId, by, TRUE, <<>>)
         IN  [d1 EXCEPT !.pendingLLMCalls[charId] = d1.last]

\* Object.keys(this.characters): the ids of the cast in insertion order
CastOrder(d) == SelectSeq(CharOrder, LAMBDA charId : charId \in DOMAIN d.characters)

\* Destiny.prepareAllResponses
RECURSIVE PrepareFrom(_, _)
PrepareFrom(d, i) ==
    IF i > Len(CastOrder(d)) THEN d
    ELSE PrepareFrom(QueueResponseGeneration(d, CastOrder(d)[i], 0), i + 1)

PrepareAllResponses(d) == PrepareFrom(d, 1)

\* Destiny.generateEventResponse up to its await
GenerateEventResponse(d, charId, index) ==
    IF ~genAI THEN d
    ELSE GenerateContent(d, "reaction", charId, 0, FALSE, <<charId, index>>)

\* The witness test without the exclusion of the acting actor
IsWitnessInRoom(char, charId, actorId, roomId) == char.currentRoomId = roomId

\* The witness test with a third condition: the pool of the witness is ready
IsWitnessWithPool(char, charId, actorId, roomId) ==
    charId # actorId /\ char.currentRoomId = roomId /\ char.responsesReady

\* recordWitnessedEvent's two early returns: the actor itself, and another room
IsWitness(char, charId, actorId, roomId) ==
    charId # actorId /\ char.currentRoomId = roomId

\* The forEach putting the new entry at the head of the log (unshift for push)
RECURSIVE WitnessFromNewestFirst(_, _, _, _, _, _)
WitnessFromNewestFirst(d, i, actorId, action, roomId, timeStr) ==
    IF i > Len(CastOrder(d)) THEN d
    ELSE LET charId == CastOrder(d)[i]
             char == d.characters[charId]
         IN  IF ~IsWitness(char, charId, actorId, roomId)
             THEN WitnessFromNewestFirst(d, i + 1, actorId, action, roomId, timeStr)
             ELSE LET memory == [time |-> timeStr, roomId |-> roomId,
                                 witnessedCharId |-> actorId, action |-> action,
                                 cachedResponse |-> <<>>,
                                 at |-> char.currentRoomId]
                      d1 == [d EXCEPT !.characters[charId].memory = <<memory>> \o @]
                      d2 == GenerateEventResponse(d1, charId, 1)
                      d3 == QueueResponseGeneration(d2, charId, 0)
                  IN  WitnessFromNewestFirst(d3, i + 1, actorId, action, roomId, timeStr)

\* Destiny.recordWitnessedEvent: the forEach over Object.values(characters).
\* An entry's field at keeps the room its owner stood in when it was appended
RECURSIVE WitnessFrom(_, _, _, _, _, _)
WitnessFrom(d, i, actorId, action, roomId, timeStr) ==
    IF i > Len(CastOrder(d)) THEN d
    ELSE LET charId == CastOrder(d)[i]
             char == d.characters[charId]
         IN  IF ~IsWitness(char, charId, actorId, roomId)
             THEN WitnessFrom(d, i + 1, actorId, action, roomId, timeStr)
             ELSE LET memory == [time |-> timeStr, roomId |-> roomId,
                                 witnessedCharId |-> actorId, action |-> action,
                                 cachedResponse |-> <<>>,
                                 at |-> char.currentRoomId]
                      d1 == [d EXCEPT !.characters[charId].memory = Append(@, memory)]
                      d2 == GenerateEventResponse(d1, charId,
                                                  Len(d1.characters[charId].memory))
                      d3 == QueueResponseGeneration(d2, charId, 0)
                  IN  WitnessFrom(d3, i + 1, actorId, action, roomId, timeStr)

RecordWitnessedEvent(d, actorId, action, roomId, timeStr) ==
    WitnessFrom(d, 1, actorId, action, roomId, timeStr)

\* An async call's promise is settled
Resolve(d, k, value) ==
    [d EXCEPT !.calls[k].promise = "fulfilled", !.calls[k].typeof = "string",
              !.calls[k].value = value]

\* An async call returns an element of the pool, whatever JSON.parse made of it
ResolveShifted(d, k, element) ==
    [d EXCEPT !.calls[k].promise = "fulfilled", !.calls[k].typeof = element.typeof,
              !.calls[k].value = element.text]

Reject(d, k) == [d EXCEPT !.calls[k].promise = "rejected"]

\* await on the promise of generateContent call j: call k resumes when it settles
Await(d, k, j) ==
    [d EXCEPT !.llm[j].waiters = Append(@, k), !.calls[k].awaited = @ + 1]

\* getTalkResponse after its on-demand generation: a response or the fallback
AfterGenerate(d, k) ==
    LET charId == d.calls[k].charId
        pool == d.characters[charId].cachedResponses
    IN  IF Len(pool) > 0
        THEN ResolveShifted([d EXCEPT !.characters[charId].cachedResponses = Tail(pool)],
                            k, Head(pool))
        ELSE Resolve(d, k, TalkFallback(charId))

\* The cached branch that leaves the ready flag set when the pool empties
ServeFromPoolLeavingReady(d, k) ==
    LET charId == d.calls[k].charId
        pool == d.characters[charId].cachedResponses
        d1 == [d EXCEPT !.characters[charId].cachedResponses = Tail(pool)]
        d2 == IF Len(pool) = 1 THEN QueueResponseGeneration(d1, charId, k) ELSE d1
    IN  ResolveShifted(d2, k, Head(pool))

\* getTalkResponse with a ready pool: cachedResponses.shift(), and the refill
\* when that leaves the pool empty
ServeFromPool(d, k) ==
    LET charId == d.calls[k].charId
        pool == d.characters[charId].cachedResponses
        d1 == [d EXCEPT !.characters[charId].cachedResponses = Tail(pool)]
        d2 == IF Len(pool) = 1
              THEN QueueResponseGeneration(
                      [d1 EXCEPT !.characters[charId].responsesReady = FALSE],
                      charId, k)
              ELSE d1
    IN  ResolveShifted(d2, k, Head(pool))

\* Destiny.getTalkResponse from its first line to its first await or its return;
\* the retry after the wait for a queued generation runs it again
GetTalkResponse(d, k) ==
    LET charId == d.calls[k].charId
    IN  IF charId \notin DOMAIN d.characters THEN Resolve(d, k, TalkUnknown)
        ELSE LET char == d.characters[charId]
             IN  IF char.responsesReady /\ Len(char.cachedResponses) > 0
                 THEN ServeFromPool(d, k)
                 ELSE IF HasPending(d, charId)
                 THEN Await(d, k, d.pendingLLMCalls[charId])
                 ELSE IF ~genAI THEN AfterGenerate(d, k)
                 ELSE LET d1 == GenerateContent(d, "pool", charId, k, FALSE, <<>>)
                      IN  Await(d1, k, d1.last)

\* Destiny.getEventResponse from its first line to its await or its return
GetEventResponse(d, k) ==
    LET charId == d.calls[k].charId
        at == d.calls[k].memoryAt
        memory == d.characters[at[1]].memory[at[2]]
    IN  IF charId \notin DOMAIN d.characters THEN Resolve(d, k, EventUnknown)
        ELSE IF memory.cachedResponse # <<>> THEN Resolve(d, k, memory.cachedResponse)
        ELSE IF ~genAI THEN Resolve(d, k, FactualFallback(memory))
        ELSE LET d1 == GenerateContent(d, "event", charId, k, FALSE, at)
             IN  Await(d1, k, d1.last)

\* The elements JSON.parse may put into the array: a string, or another value
JsonString(text) == [typeof |-> "string", text |-> text]
JsonNumber(text) == [typeof |-> "number", text |-> text]

\* What a generateContent call may come back with. For a pool: the call rejects,
\* or its text holds no [...] part, or one that JSON.parse does not accept, or
\* an array: empty, of strings, or of something else. For a reaction: the call
\* rejects or answers a text
PoolOutcome(fails, match, valid, array) ==
    [fails |-> fails, match |-> match, valid |-> valid, array |-> array]

PoolOutcomes ==
    { PoolOutcome(TRUE, FALSE, FALSE, <<>>),
      PoolOutcome(FALSE, FALSE, FALSE, <<>>),
      PoolOutcome(FALSE, TRUE, FALSE, <<>>),
      PoolOutcome(FALSE, TRUE, TRUE, <<>>),
      PoolOutcome(FALSE, TRUE, TRUE, << JsonString(<<"r1">>) >>),
      PoolOutcome(FALSE, TRUE, TRUE, << JsonString(<<"r1">>), JsonString(<<"r2">>) >>),
      PoolOutcome(FALSE, TRUE, TRUE, << JsonNumber(<<"1">>) >>) }

TextOutcomes ==
    { [fails |-> TRUE, text |-> <<>>],
      [fails |-> FALSE, text |-> <<" ">>],
      [fails |-> FALSE, text |-> <<" ", "e1", " ">>] }

\* generateContent rejected, or the code after the await threw
PoolThrows(outcome) == outcome.fails \/ (outcome.match /\ ~outcome.valid)

\* generateCharacterResponses after its await: the pool is stored when the
\* text holds an array; a rejection or a parse error is caught and logged
StoreResponses(d, j, outcome) ==
    IF PoolThrows(outcome) \/ ~outcome.match THEN d
    ELSE [d EXCEPT !.characters[d.llm[j].charId].cachedResponses = outcome.array,
                   !.characters[d.llm[j].charId].responsesReady = TRUE]

\* The promise generateCharacterResponses returns: its try/catch lets nothing out
PoolPromise(outcome) == "fulfilled"

\* A reaction to clear the entry that runs only when the generation succeeded
DeleteOnSuccess(d, j, outcome) ==
    IF PoolThrows(outcome) THEN d
    ELSE [d EXCEPT !.pendingLLMCalls[d.llm[j].charId] = 0]

\* promise.finally(() => pendingLLMCalls.delete(charId))
FinallyDelete(d, j, outcome) ==
    [d EXCEPT !.pendingLLMCalls[d.llm[j].charId] = 0]

\* The calls that awaited a pool generation resume in the order in which they
\* awaited it: a rejection is thrown into them, the wait for a queued generation
\* is followed by the retry, the on-demand generation by the look at the pool
RECURSIVE ResumeWaiters(_, _, _, _, _)
ResumeWaiters(d, job, promise, outcome, i) ==
    IF i > Len(job.waiters) THEN d
    ELSE LET k == job.waiters[i]
             d0 == [d EXCEPT !.calls[k].sawFail = @ \/ PoolThrows(outcome),
                             !.calls[k].sawQueuedFail =
                                 @ \/ (job.queued /\ PoolThrows(outcome))]
             d1 == IF promise = "rejected" THEN Reject(d0, k)
                   ELSE IF job.queued THEN GetTalkResponse(d0, k)
                   ELSE AfterGenerate(d0, k)
         IN  ResumeWaiters(d1, job, promise, outcome, i + 1)

\* A pool generation settles: the pool is stored, the promise settles, the
\* reaction registered by queueResponseGeneration runs, then the awaiting calls
SettlePool(d, j, outcome) ==
    LET job == d.llm[j]
        d1 == StoreResponses(d, j, outcome)
        d2 == IF job.queued THEN FinallyDelete(d1, j, outcome) ELSE d1
        d3 == [d2 EXCEPT !.llm[j] = NoJob]
    IN  ResumeWaiters(d3, job, PoolPromise(outcome), outcome, 1)

\* generateEventResponse after its await
SettleReaction(d, j, outcome) ==
    LET at == d.llm[j].memoryAt
        d1 == IF outcome.fails THEN d
              ELSE [d EXCEPT !.characters[at[1]].memory[at[2]].cachedResponse =
                                Trim(outcome.text)]
    IN  [d1 EXCEPT !.llm[j] = NoJob]

\* getEventResponse after its await
SettleEvent(d, j, outcome) ==
    LET at == d.llm[j].memoryAt
        k == d.llm[j].by
        d1 == [d EXCEPT !.llm[j] = NoJob, !.calls[k].sawFail = outcome.fails]
    IN  IF outcome.fails
        THEN Resolve(d1, k, FactualFallback(d.characters[at[1]].memory[at[2]]))
        ELSE Resolve([d1 EXCEPT !.characters[at[1]].memory[at[2]].cachedResponse =
                                   Trim(outcome.text)],
                     k, Trim(outcome.text))

-----------------------------------------------------------------------------
(* World-graph queries on every graph of the bounded family *)

\* A Character object as the casting hands it over, standing in a room
Character(roomId) ==
    [currentRoomId |-> roomId, memory |-> <<>>,
     cachedResponses |-> <<>>, responsesReady |-> FALSE]

\* A value a caller holds for a schedule: a reference to the object work
\* created and cached, null, or nothing yet. A reference shows the object as it
\* is now; contents is for a value that is an object of its own
Reference(obj, contents) == [obj |-> obj, contents |-> contents]

CachedReference == Reference("schedule", <<>>)

NullReference == Reference(Null, <<>>)

NothingHeld ==
    [work |-> Reference("none", <<>>), handleTask |-> Reference("none", <<>>),
     dispatch |-> Reference("none", <<>>)]

-----------------------------------------------------------------------------
(* LocationScout: the validation of the generated rooms                     *)

\* One entry of Room.exits: the direction label and the id it leads to
Exit(dir, to) == [dir |-> dir, to |-> to]

\* A generated room: its id and its exits as Object.entries sees them
Room(id, exits) == [id |-> id, exits |-> exits]

\* LocationScout.getOppositeDir, on the lower-case labels the grids here use
GetOppositeDir(dir) ==
    CASE dir = "north" -> "south"
      [] dir = "south" -> "north"
      [] dir = "east" -> "west"
      [] dir = "west" -> "east"
      [] dir = "up" -> "down"
      [] dir = "down" -> "up"
      [] OTHER -> Null

\* exits[dir], or Null for a label the room has no exit for
ExitTo(exits, dir) ==
    IF \E i \in 1..Len(exits) : exits[i].dir = dir
    THEN exits[CHOOSE i \in 1..Len(exits) : exits[i].dir = dir].to
    ELSE Null

\* exits[dir] = to: an exit the room has keeps its place, a new one comes last
SetExit(exits, dir, to) ==
    IF \E i \in 1..Len(exits) : exits[i].dir = dir
    THEN [i \in 1..Len(exits) |-> IF exits[i].dir = dir THEN Exit(dir, to) ELSE exits[i]]
    ELSE Append(exits, Exit(dir, to))

\* delete exits[dir] for every label of toRemove
RECURSIVE DeleteExits(_, _)
DeleteExits(exits, toRemove) ==
    IF exits = <<>> THEN <<>>
    ELSE IF Head(exits).dir \in toRemove
         THEN DeleteExits(Tail(exits), toRemove)
         ELSE <<Head(exits)>> \o DeleteExits(Tail(exits), toRemove)

\* roomById[id]: the place in the list of the last room with the id, 0 for none
RoomById(grid, id) ==
    IF \E t \in 1..Len(grid) : grid[t].id = id
    THEN CHOOSE t \in 1..Len(grid) :
            grid[t].id = id /\ \A u \in 1..Len(grid) : grid[u].id = id => u <= t
    ELSE 0

\* The forEach of validateAndFixGrid over the entries one room had when its
\* turn came: an exit to no room is marked for removal, and the target of any
\* other exit is given the exit back in the opposite direction
RECURSIVE FixExits(_, _, _, _, _)
FixExits(grid, r, entries, i, toRemove) ==
    IF i > Len(entries) THEN [grid |-> grid, toRemove |-> toRemove]
    ELSE LET dir == entries[i].dir
             t == RoomById(grid, entries[i].to)
             opposite == GetOppositeDir(dir)
         IN  IF t = 0
             THEN FixExits(grid, r, entries, i + 1, toRemove \cup {dir})
             ELSE IF opposite # Null /\ ExitTo(grid[t].exits, opposite) # grid[r].id
             THEN FixExits([grid EXCEPT ![t].exits = SetExit(@, opposite, grid[r].id)],
                           r, entries, i + 1, toRemove)
             ELSE FixExits(grid, r, entries, i + 1, toRemove)

\* The forEach of validateAndFixGrid over the rooms, from room r on
RECURSIVE FixRooms(_, _)
FixRooms(grid, r) ==
    IF r > Len(grid) THEN grid
    ELSE LET fixed == FixExits(grid, r, grid[r].exits, 1, {})
         IN  FixRooms([fixed.grid EXCEPT ![r].exits = DeleteExits(@, fixed.toRemove)],
                      r + 1)

\* LocationScout.validateAndFixGrid
ValidateAndFixGrid(grid) == FixRooms(grid, 1)

\* Grafitti.initialize, as the adjacency it builds from a list of rooms
AdjacencyOf(grid) ==
    [id \in {grid[r].id : r \in 1..Len(grid)} |-> grid[RoomById(grid, id)].exits]

\* Grafitti.validateReciprocal().issues, as the exits it reports
ReciprocalIssues(adj) ==
    {<<roomId, i>> \in UNION {{<<id, i>> : i \in 1..Len(adj[id])} : id \in DOMAIN adj} :
        LET opposite == GetOppositeDir(adj[roomId][i].dir)
            targetId == adj[roomId][i].to
        IN  /\ opposite # Null
            /\ \/ targetId \notin DOMAIN adj
               \/ ExitTo(adj[targetId], opposite) # roomId}

ScoutIdle ==
    /\ generatedRooms = <<>>
    /\ cachedRooms = <<>>

-----------------------------------------------------------------------------
(* llmUtil: the connection to the local model and the queue of generations  *)

\* theConnection before connect
Unconnected == [state |-> "UNINITIALIZED", connectionType |-> "NONE"]

\* isLlmConnected
IsLlmConnected(connection) == connection.state \in {"READY", "GENERATING"}

\* _clearConnectionAndThrow
ClearConnection(connection) ==
    [connection EXCEPT !.connectionType = "NONE", !.state = "INIT_FAILED"]

\* getCachedPromptResponse; the empty string and a missing entry both count
\* as no cached response in _generateInternal
GetCachedPromptResponse(prompt) ==
    IF prompt \in DOMAIN promptCache THEN promptCache[prompt] ELSE Null

HasCachedResponse(prompt) ==
    GetCachedPromptResponse(prompt) # Null /\ GetCachedPromptResponse(prompt) # ""

\* setCachedPromptResponse
SetCachedPromptResponse(cache, prompt, response) ==
    [p \in DOMAIN cache \cup {prompt} |-> IF p = prompt THEN response ELSE cache[p]]

\* A call of generate, with the state of the promise it returned
Request(prompt) ==
    [prompt |-> prompt, phase |-> "queued", result |-> Null, startedAt |-> 0]

Settled(request) == request.phase \in {"resolved", "rejected"}

\* The number of requests whose _generateInternal has been entered
StartedCount == Cardinality({n \in DOMAIN generationQueue : generationQueue[n].startedAt > 0})

\* the finally block of _generateInternal without the assignment
AfterAttemptKeepingState(connection) == connection

\* The finally block of _generateInternal
AfterAttempt(connection) == [connection EXCEPT !.state = "READY"]

\* _generationQueue.then with every callback run as soon as it is attached
ChainSettledAtOnce(n) == TRUE

\* _generationQueue.then: the callback of request n runs once the promise the
\* queue held at its call, nextGen.catch(() => '') of the request before it,
\* is settled
ChainSettled(n) == \A m \in 1..(n - 1) : Settled(generationQueue[m])

\* _generateInternal from the checks of the connection to the await of
\* webLlmGenerate, for request n
CheckAndGenerate(n, connection) ==
    IF ~IsLlmConnected(connection)
    THEN [connection |-> connection,
          request |-> [generationQueue[n] EXCEPT
                          !.phase = "rejected", !.result = "not initialized"]]
    ELSE IF connection.state # "READY"
    THEN [connection |-> connection,
          request |-> [generationQueue[n] EXCEPT
                          !.phase = "rejected", !.result = "not in ready state"]]
    ELSE IF connection.connectionType # "WEBLLM"
    THEN [connection |-> AfterAttempt([connection EXCEPT !.state = "GENERATING"]),
          request |-> [generationQueue[n] EXCEPT
                          !.phase = "rejected", !.result = "Unexpected"]]
    ELSE [connection |-> [connection EXCEPT !.state = "GENERATING"],
          request |-> [generationQueue[n] EXCEPT !.phase = "generating"]]

LlmIdle ==
    /\ theConnection = Unconnected
    /\ connectionPromise = FALSE
    /\ generationQueue = <<>>
    /\ promptCache = <<>>

DestinyIdle ==
    /\ genAI = FALSE /\ characters = <<>> /\ pendingLLMCalls = <<>>
    /\ llm = <<>> /\ calls = <<>>

GameIdle ==
    /\ time = T(18, 0) /\ isGameOver = FALSE /\ currentRoomId = "foyer"
    /\ characterPositions = <<>> /\ lastTick = [op |-> Null]
    /\ freeCommands = 0

NoQuery == [start |-> Null, target |-> Null, path |-> <<>>, next |-> Null]

\* The world graph after Grafitti.initialize with the rooms of the world-design
\* collaborator: every room is known, and its exits are stored in the order given
InitGraph ==
    /\ LlmIdle
    /\ ScoutIdle
    /\ rooms = RoomIds
    /\ adjacency \in [RoomIds -> {ExitsOf(targets) : targets \in TargetLists(MaxExits)}]
    /\ q = NoQuery
    /\ scheduled = FALSE /\ cachedSchedule = <<>> /\ scheduleKeys = <<>>
    /\ added = 0 /\ sq = [op |-> Null] /\ held = NothingHeld
    /\ DestinyIdle /\ GameIdle

\* A caller asks findPath and getNextStep for one pair of ids. A query leaves
\* the graph as it is, so a later query is answered as a first one: one per run
QueryPath(startId, targetId) ==
    /\ q = NoQuery
    /\ q' = [start |-> startId, target |-> targetId,
             path |-> FindPath(startId, targetId),
             next |-> GetNextStep(startId, targetId)]
    /\ UNCHANGED <<scoutVars, llmVars, graphVars, schedVars, sq, destinyVars, gameVars>>

NextGraph ==
    \E s \in AnyRoomId, t \in AnyRoomId : QueryPath(s, t)

SpecGraph == InitGraph /\ [][NextGraph]_vars

-----------------------------------------------------------------------------
(* The Scheduler driven by its callers: schedule generation, runtime        *)
(* insertions and ticks, on bounded inputs                                  *)

Roles == {"Guest", "Butler", "Host/Victim"}

\* Largest number of addEvent insertions in one run
MaxAdded == 1

\* The casts handed to Scheduler.work: c1 in any role, alone or with a guest
Casts ==
    { <<[id |-> "c1", role |-> r1]>> : r1 \in Roles }
      \cup { <<[id |-> "c1", role |-> r1], [id |-> "c2", role |-> "Guest"]>> : r1 \in Roles }

\* Event times a generation may answer with: on the grid, off the grid, unpadded
DynTimes == { T(18, 5), T(23, 58), <<"9", ":", "5", "8">> }

DynEvents == { Event(t, "wanders off", "dining_room") : t \in DynTimes }

\* The parsed answers of the generation: none, one event for c1, or an
\* event for an id that is not in the cast
Dynamics ==
    { <<>> } \cup { [id \in {"c1"} |-> <<e>>] : e \in DynEvents }
             \cup { [id \in {UnknownChar} |-> <<Event(T(18, 5), "wanders off", "dining_room")>>] }

\* Times addEvent is called with: on the grid, midnight, unpadded, off the grid
AddTimes == { T(18, 10), T(0, 0), <<"9", ":", "3", "0">>, T(18, 7) }

\* Times of day a tick is asked for
TickTimes == { T(17, 55), T(18, 0), T(18, 10), T(19, 0), T(23, 55), T(0, 0) }

\* The actors' rooms a tick is asked with; the test-data butler stands with c1
TickCharacters ==
    { [id \in CharIds \cup {"char_1_butler"} |->
          IF id = "c2" THEN r2 ELSE r1] : r1 \in RoomIds, r2 \in {"foyer", "dining_room"} }

NoSchedCall == [op |-> Null]

InitSched ==
    /\ LlmIdle
    /\ ScoutIdle
    /\ rooms = {} /\ adjacency = <<>> /\ q = NoQuery
    /\ scheduled = FALSE
    /\ cachedSchedule = <<>>
    /\ scheduleKeys = <<>>
    /\ added = 0
    /\ sq = NoSchedCall
    /\ held = NothingHeld
    /\ DestinyIdle /\ GameIdle

\* Scheduler.work, at the point where it caches and returns the schedule
Work(cast, useTestData, dynamic) ==
    /\ ~scheduled
    /\ scheduled' = TRUE
    /\ IF useTestData
       THEN /\ cachedSchedule' = TestSchedule
            /\ scheduleKeys' = TestScheduleKeys
       ELSE /\ cachedSchedule' = FullSchedule(cast, dynamic)
            /\ scheduleKeys' = CastIds(cast)
    /\ added' = 0
    /\ held' = [held EXCEPT !.work = CachedReference]
    /\ sq' = [op |-> "work", cast |-> cast, useTestData |-> useTestData]
    /\ UNCHANGED <<scoutVars, llmVars, graphVars, q, destinyVars, gameVars>>

\* Scheduler.addEvent
AddEvent(charId, timeStr, action, locationId) ==
    /\ added < MaxAdded
    /\ IF ~scheduled \/ charId \notin DOMAIN cachedSchedule
       THEN /\ sq' = [op |-> "addEvent", charId |-> charId, time |-> timeStr,
                      locationId |-> locationId, result |-> FALSE]
            /\ UNCHANGED <<cachedSchedule, added>>
       ELSE /\ cachedSchedule' =
                  [cachedSchedule EXCEPT ![charId] =
                      SortByTime(Append(@, Event(timeStr, action, locationId)))]
            /\ added' = added + 1
            /\ sq' = [op |-> "addEvent", charId |-> charId, time |-> timeStr,
                      locationId |-> locationId, result |-> TRUE]
    /\ UNCHANGED <<scoutVars, llmVars, graphVars, q, scheduled, scheduleKeys, held, destinyVars, gameVars>>

\* Scheduler.tick, called with the current time and the actors' current rooms
Tick(currentTime, charRooms) ==
    /\ sq' = [op |-> "tick", time |-> currentTime, characters |-> charRooms,
              intents |-> SchedulerTick(currentTime, charRooms)]
    /\ UNCHANGED <<scoutVars, llmVars, graphVars, q, schedVars, destinyVars, gameVars>>

\* Scheduler.handleTask answering with an object of its own that holds what
\* the timetables are at the time
HandleTaskCopying(task) ==
    IF task.type = "get_schedule"
    THEN IF scheduled THEN Reference("copy", cachedSchedule) ELSE NullReference
    ELSE NullReference

\* Scheduler.handleTask: this.cachedSchedule for get_schedule, else null
HandleTask(task) ==
    IF task.type = "get_schedule"
    THEN IF scheduled THEN CachedReference ELSE NullReference
    ELSE NullReference

\* A caller hands the Scheduler a task
HandleTaskCall(task) ==
    /\ sq' = [op |-> "handleTask", type |-> task.type, result |-> HandleTask(task)]
    /\ held' = IF task.type = "get_schedule"
               THEN [held EXCEPT !.handleTask = sq'.result] ELSE held
    /\ UNCHANGED <<scoutVars, llmVars, graphVars, q, scheduled, cachedSchedule, scheduleKeys, added,
                   destinyVars, gameVars>>

NextSched ==
    \/ \E cast \in Casts, useTestData \in BOOLEAN, dynamic \in Dynamics :
          Work(cast, useTestData, dynamic)
    \/ \E charId \in CharIds \cup {UnknownChar}, timeStr \in AddTimes :
          AddEvent(charId, timeStr, "does something spontaneous", "living_room")
    \/ \E currentTime \in TickTimes, charRooms \in TickCharacters :
          Tick(currentTime, charRooms)

SpecSched == InitSched /\ [][NextSched]_vars

-----------------------------------------------------------------------------
(* Destiny driven by its callers, with the collaborator's calls settling in *)
(* any order and with any outcome                                           *)

\* Largest number of generateContent calls in flight at a time, and of entries
\* in one memory log
MaxLLM == 2
MaxMemory == 1

\* The callers of getTalkResponse and getEventResponse: each has at most one
\* call pending, and the first caller without a pending call makes the next one
Callers == <<"player", "observer">>

\* Destiny after its constructor and initialize: with or without an API key,
\* for a cast of one actor, c1, standing in the foyer
InitDestiny ==
    /\ LlmIdle
    /\ ScoutIdle
    /\ rooms = {} /\ adjacency = <<>> /\ q = NoQuery
    /\ scheduled = FALSE /\ cachedSchedule = <<>> /\ scheduleKeys = <<>>
    /\ added = 0 /\ sq = NoSchedCall /\ held = NothingHeld
    /\ genAI \in BOOLEAN
    /\ characters = [c \in {"c1"} |-> Character("foyer")]
    /\ pendingLLMCalls = [c \in {"c1"} |-> 0]
    /\ llm = [j \in 1..MaxLLM |-> NoJob]
    /\ calls = [k \in 1..Len(Callers) |-> NoCall]
    /\ GameIdle

SetDestiny(d) ==
    /\ ~d.full
    /\ characters' = d.characters
    /\ pendingLLMCalls' = d.pendingLLMCalls
    /\ llm' = d.llm
    /\ calls' = d.calls
    /\ UNCHANGED <<scoutVars, llmVars, graphVars, q, schedVars, sq, genAI, gameVars>>

\* generateContent calls for an actor that have not settled
InFlight(d, charId) ==
    {j \in DOMAIN d.llm : d.llm[j].promise = "pending" /\ d.llm[j].charId = charId}

\* The places of the table calls a new call may take: those of no pending call
FreeCalls(d) == {k \in DOMAIN d.calls : d.calls[k].promise # "pending"}

\* The pending getTalkResponse call for the actor that was made with no pool and
\* no generation in flight and has made every generation now in flight, 0 for none
ColdCallFor(d, charId) ==
    LET cold == {a \in DOMAIN d.calls :
                    /\ d.calls[a].op = "talk" /\ d.calls[a].promise = "pending"
                    /\ d.calls[a].charId = charId /\ d.calls[a].cold
                    /\ InFlight(d, charId) # {}
                    /\ \A j \in InFlight(d, charId) : d.llm[j].by = a}
    IN  IF cold = {} THEN 0 ELSE CHOOSE a \in cold : TRUE

\* A call is made and takes place k: its record keeps what it found when it was made
NewCall(d, k, op, charId, memoryAt) ==
    LET noPool == IF charId \in DOMAIN d.characters
                  THEN ~(d.characters[charId].responsesReady
                           /\ Len(d.characters[charId].cachedResponses) > 0)
                  ELSE FALSE
        record == [NoCall EXCEPT !.op = op, !.charId = charId, !.memoryAt = memoryAt,
                                 !.promise = "pending", !.noPool = noPool,
                                 !.cold = noPool /\ InFlight(d, charId) = {},
                                 !.joined = IF op = "talk" /\ noPool
                                            THEN ColdCallFor(d, charId) ELSE 0]
    IN  [d EXCEPT !.calls[k] = record]

\* The place a new call takes: the first one that holds no pending call
NextCall == CHOOSE k \in FreeCalls(DestinyState) : \A x \in FreeCalls(DestinyState) : k <= x

CallPrepareAllResponses ==
    SetDestiny(PrepareAllResponses(DestinyState))

CallRecordWitnessedEvent(actorId, roomId) ==
    /\ \A c \in DOMAIN characters : Len(characters[c].memory) < MaxMemory
    /\ SetDestiny(RecordWitnessedEvent(DestinyState, actorId, "arrives", roomId, T(18, 0)))

CallGetTalkResponse(charId) ==
    /\ FreeCalls(DestinyState) # {}
    /\ SetDestiny(GetTalkResponse(NewCall(DestinyState, NextCall, "talk", charId, <<>>),
                                  NextCall))

CallGetEventResponse(charId, owner, index) ==
    /\ FreeCalls(DestinyState) # {}
    /\ index \in 1..Len(characters[owner].memory)
    /\ SetDestiny(GetEventResponse(
                      NewCall(DestinyState, NextCall, "event", charId, <<owner, index>>),
                      NextCall))

\* A generateContent call settles and the code awaiting it runs
Settle(j, outcome) ==
    /\ llm[j].promise = "pending"
    /\ \/ /\ llm[j].kind = "pool"
          /\ outcome \in PoolOutcomes
          /\ SetDestiny(SettlePool(DestinyState, j, outcome))
       \/ /\ llm[j].kind = "reaction"
          /\ outcome \in TextOutcomes
          /\ SetDestiny(SettleReaction(DestinyState, j, outcome))
       \/ /\ llm[j].kind = "event"
          /\ outcome \in TextOutcomes
          /\ SetDestiny(SettleEvent(DestinyState, j, outcome))

\* The callers ask about c1 and about an id no actor has; c1 and a visitor c2
\* act, in c1's room and next door
NextDestiny ==
    \/ CallPrepareAllResponses
    \/ \E actorId \in {"c1", "c2"}, roomId \in {"foyer", "living_room"} :
          CallRecordWitnessedEvent(actorId, roomId)
    \/ \E charId \in {"c1", UnknownChar} : CallGetTalkResponse(charId)
    \/ \E charId \in {"c1", UnknownChar}, index \in 1..MaxMemory :
          CallGetEventResponse(charId, "c1", index)
    \/ \E j \in 1..MaxLLM, outcome \in PoolOutcomes \cup TextOutcomes : Settle(j, outcome)

SpecDestiny == InitDestiny /\ [][NextDestiny]_vars

-----------------------------------------------------------------------------
(* The game: GameEngine.parseCommand over the world ExecutiveDirector.work  *)
(* assembles from the built-in test data (no player config, no API key)     *)

\* GameEngine.timeToMinutes
EngineTimeToMinutes(timeStr) ==
    IF HourOf(timeStr) = 0 /\ MinuteOf(timeStr) = 0 THEN 24 * 60
    ELSE HourOf(timeStr) * 60 + MinuteOf(timeStr)

\* ExecutiveDirector.timeToMinutes
DirectorTimeToMinutes(timeStr) == HourOf(timeStr) * 60 + MinuteOf(timeStr)

\* GameEngine.getTargetLocation: the room of the last event of the list that has
\* started, or the actor's own room
RECURSIVE RelevantEvent(_, _, _, _)
RelevantEvent(events, i, currentTotal, relevant) ==
    IF i > Len(events) THEN relevant
    ELSE RelevantEvent(events, i + 1, currentTotal,
                       IF EngineTimeToMinutes(events[i].time) <= currentTotal
                       THEN i ELSE relevant)

GetTargetLocation(chars, charId, timeStr) ==
    LET events == cachedSchedule[charId]
        relevant == RelevantEvent(events, 1, EngineTimeToMinutes(timeStr), 0)
    IN  IF relevant # 0 THEN events[relevant].locationId
        ELSE chars[charId].currentRoomId

\* GameEngine.findNextStep: its own breadth-first search over the map
FindNextStep(startId, targetId) ==
    IF startId = targetId THEN Null
    ELSE LET path == BfsLoop(<<[id |-> startId, path |-> <<>>]>>, {startId}, targetId)
         IN  IF Len(path) > 0 THEN path[1] ELSE Null

\* GameEngine.updateCharacterLocations: the forEach over the keys of the schedule
RECURSIVE UpdateCharacterLocations(_, _, _)
UpdateCharacterLocations(chars, i, timeStr) ==
    IF i > Len(scheduleKeys) THEN chars
    ELSE LET charId == scheduleKeys[i]
         IN  IF charId \notin DOMAIN chars
             THEN UpdateCharacterLocations(chars, i + 1, timeStr)
             ELSE LET targetRoomId == GetTargetLocation(chars, charId, timeStr)
                      nextStepId == FindNextStep(chars[charId].currentRoomId, targetRoomId)
                  IN  IF chars[charId].currentRoomId # targetRoomId /\ nextStepId # Null
                      THEN UpdateCharacterLocations(
                              [chars EXCEPT ![charId].currentRoomId = nextStepId],
                              i + 1, timeStr)
                      ELSE UpdateCharacterLocations(chars, i + 1, timeStr)

\* GameEngine.advanceTime
AdvanceTime(chars, timeStr, over, minutes) ==
    LET totalMinutes == HourOf(timeStr) * 60 + MinuteOf(timeStr) + minutes
        newTime == Pad2((totalMinutes \div 60) % 24) \o <<":">> \o Pad2(totalMinutes % 60)
    IN  IF totalMinutes >= 24 * 60
        THEN [time |-> T(0, 0), isGameOver |-> TRUE, characters |-> chars]
        ELSE [time |-> newTime, isGameOver |-> over,
              characters |-> UpdateCharacterLocations(chars, 1, newTime)]

\* String.toLowerCase on the action texts of the timetables; a text without a
\* capital letter is its own lower case
ToLowerCase(text) ==
    CASE text = "Arrives at the venue" -> "arrives at the venue"
      [] text = "Listens to the Will Announcement" -> "listens to the will announcement"
      [] text = "Eats Dinner" -> "eats dinner"
      [] text = "Greets guests" -> "greets guests"
      [] text = "Announces Will" -> "announces will"
      [] text = "DIES" -> "dies"
      [] text = "Poisons the brandy" -> "poisons the brandy"
      [] text = "Checks the wine" -> "checks the wine"
      [] OTHER -> text

\* ExecutiveDirector.getScheduledAction
RECURSIVE ScheduledScan(_, _, _)
ScheduledScan(events, i, currentMinutes) ==
    IF i < 1 THEN 0
    ELSE IF DirectorTimeToMinutes(events[i].time) <= currentMinutes THEN i
    ELSE ScheduledScan(events, i - 1, currentMinutes)

GetScheduledAction(charId, currentTime) ==
    IF ~scheduled \/ charId \notin DOMAIN cachedSchedule THEN Null
    ELSE LET events == cachedSchedule[charId]
             found == ScheduledScan(events, Len(events), DirectorTimeToMinutes(currentTime))
         IN  IF found # 0 THEN ToLowerCase(events[found].action)
             ELSE IF Len(events) > 0 /\ ToLowerCase(events[1].action) # ""
                  THEN ToLowerCase(events[1].action)
             ELSE Null

\* Grafitti.moveCharacter
MoveCharacter(positions, charId, newRoomId) ==
    IF newRoomId \notin rooms THEN positions
    ELSE [c \in DOMAIN positions \cup {charId} |->
             IF c = charId THEN newRoomId ELSE positions[c]]

\* The rooms of the actors as Scheduler.tick reads them off the Character objects
RoomsOf(chars) == [c \in DOMAIN chars |-> chars[c].currentRoomId]

\* The lines ExecutiveDirector.tick pushes for one moved actor: one when the
\* player stands in the room the hop starts from, one when the player stands in
\* the room it ends in. action is the scheduled action, Null for none
Narration(charId, oldRoom, nextStep, scheduledAction, playerRoomId) ==
    LET action == IF scheduledAction # Null /\ scheduledAction # ""
                  THEN scheduledAction ELSE Null
    IN  (IF playerRoomId = oldRoom
         THEN << [charId |-> charId, kind |-> "leaves", room |-> nextStep,
                  action |-> action] >>
         ELSE <<>>)
        \o (IF playerRoomId = nextStep
            THEN << [charId |-> charId, kind |-> "enters", room |-> oldRoom,
                     action |-> action] >>
            ELSE <<>>)

\* The body of the loop returning with the hop made and the lines pushed, and
\* with the witnessed event still to be recorded
MoveOneStepUnrecorded(g, move, currentRoom, nextStep, currentTime) ==
    [d |-> [g.d EXCEPT !.characters[move.charId].currentRoomId = nextStep],
     positions |-> MoveCharacter(g.positions, move.charId, nextStep),
     moved |-> Append(g.moved, [charId |-> move.charId, oldRoom |-> currentRoom,
                                nextStep |-> nextStep]),
     messages |-> g.messages
         \o Narration(move.charId, currentRoom, nextStep,
                      GetScheduledAction(move.charId, currentTime), g.playerRoomId),
     playerRoomId |-> g.playerRoomId]

\* The body of the loop of ExecutiveDirector.tick for an intent with a next
\* step: the hop, the narration and the witnessed event. g holds Destiny's
\* objects (the Character objects are shared with the engine) and Grafitti's
\* positions
MoveOneStep(g, move, currentRoom, nextStep, currentTime) ==
    LET d1 == [g.d EXCEPT !.characters[move.charId].currentRoomId = nextStep]
        scheduledAction == GetScheduledAction(move.charId, currentTime)
        d2 == IF scheduledAction # Null /\ scheduledAction # ""
              THEN RecordWitnessedEvent(d1, move.charId, scheduledAction,
                                        nextStep, currentTime)
              ELSE d1
    IN  [d |-> d2,
         positions |-> MoveCharacter(g.positions, move.charId, nextStep),
         moved |-> Append(g.moved, [charId |-> move.charId,
                                    oldRoom |-> currentRoom,
                                    nextStep |-> nextStep]),
         messages |-> g.messages
             \o Narration(move.charId, currentRoom, nextStep,
                          scheduledAction, g.playerRoomId),
         playerRoomId |-> g.playerRoomId]

\* The room the hop of an intent starts from
CurrentRoomOf(g, move) ==
    IF move.charId \in DOMAIN g.positions THEN g.positions[move.charId] ELSE move.from

\* The loop leaving at the first intent without a next step
RECURSIVE ProcessMovementsUntilStuck(_, _, _, _)
ProcessMovementsUntilStuck(g, movements, i, currentTime) ==
    IF i > Len(movements) THEN g
    ELSE LET currentRoom == CurrentRoomOf(g, movements[i])
             nextStep == GetNextStep(currentRoom, movements[i].to)
         IN  IF nextStep = Null THEN g
             ELSE ProcessMovementsUntilStuck(
                      MoveOneStep(g, movements[i], currentRoom, nextStep, currentTime),
                      movements, i + 1, currentTime)

\* ExecutiveDirector.tick: the loop over the movement intents; an intent
\* without a next step is passed over
RECURSIVE ProcessMovements(_, _, _, _)
ProcessMovements(g, movements, i, currentTime) ==
    IF i > Len(movements) THEN g
    ELSE LET currentRoom == CurrentRoomOf(g, movements[i])
             nextStep == GetNextStep(currentRoom, movements[i].to)
         IN  IF nextStep = Null
             THEN ProcessMovements(g, movements, i + 1, currentTime)
             ELSE ProcessMovements(
                      MoveOneStep(g, movements[i], currentRoom, nextStep, currentTime),
                      movements, i + 1, currentTime)

DirectorTick(d, positions, currentTime, playerRoomId) ==
    ProcessMovements([d |-> d, positions |-> positions, moved |-> <<>>,
                      messages |-> <<>>, playerRoomId |-> playerRoomId],
                     SchedulerTick(currentTime, RoomsOf(d.characters)), 1, currentTime)


\* LocationScout.getTestMansion: the exits of the rooms, in the order written
TestMansion ==
    [ foyer |-> << Exit("north", "upper_landing"), Exit("east", "dining_room"),
                   Exit("west", "living_room"), Exit("south", "masters_study") >>,
      dining_room |-> << Exit("south", "kitchen"), Exit("west", "foyer") >>,
      kitchen |-> << Exit("north", "dining_room"), Exit("east", "butlers_pantry") >>,
      butlers_pantry |-> << Exit("west", "kitchen") >>,
      living_room |-> << Exit("east", "foyer"), Exit("west", "game_room") >>,
      game_room |-> << Exit("east", "living_room") >>,
      masters_study |-> << Exit("north", "foyer") >>,
      upper_landing |-> << Exit("south", "foyer"), Exit("east", "guest_corridor") >>,
      guest_corridor |-> << Exit("west", "upper_landing") >> ]

\* The work loop over the entries of the schedule: the 18:00 event of every
\* actor is recorded for the others
RECURSIVE RecordStartEvents(_, _)
RecordStartEvents(d, i) ==
    IF i > Len(scheduleKeys) THEN d
    ELSE LET charId == scheduleKeys[i]
             events == cachedSchedule[charId]
             starts == {n \in 1..Len(events) : events[n].time = T(18, 0)}
         IN  IF charId \notin DOMAIN d.characters \/ starts = {}
             THEN RecordStartEvents(d, i + 1)
             ELSE LET startEvent == events[CHOOSE n \in starts : \A m \in starts : n <= m]
                  IN  RecordStartEvents(
                          RecordWitnessedEvent(d, charId, startEvent.action,
                                               startEvent.locationId, T(18, 0)),
                          i + 1)

\* Largest number of commands in one game that take no game time
MaxFreeCommands == 1

\* What a tick did: the actors' rooms before and after it, the hops it made
\* and the lines it returned
TickRecord(currentTime, playerRoomId, before, g) ==
    [op |-> "tick", time |-> currentTime, playerRoomId |-> playerRoomId,
     before |-> before, after |-> RoomsOf(g.d.characters),
     moved |-> g.moved, messages |-> g.messages]

\* The state GameEngine.initialize leaves: everyone in the foyer at 18:00, the
\* test mansion in Grafitti, the test schedule cached, the 18:00 events recorded
InitGame ==
    /\ LlmIdle
    /\ ScoutIdle
    /\ rooms = DOMAIN TestMansion
    /\ adjacency = TestMansion
    /\ q = NoQuery
    /\ scheduled = TRUE
    /\ cachedSchedule = TestSchedule
    /\ scheduleKeys = TestScheduleKeys
    /\ added = 0
    /\ sq = NoSchedCall
    /\ held = [NothingHeld EXCEPT !.work = CachedReference]
    /\ genAI = FALSE
    /\ characters =
          LET cast == [c \in {TestCast[i] : i \in 1..Len(TestCast)} |-> Character("foyer")]
              d == [characters |-> cast,
                    pendingLLMCalls |-> [c \in DOMAIN cast |-> 0],
                    llm |-> [j \in 1..MaxLLM |-> NoJob],
                    calls |-> [k \in 1..Len(Callers) |-> NoCall],
                    last |-> 1, full |-> FALSE]
          IN  RecordStartEvents(PrepareAllResponses(d), 1).characters
    /\ pendingLLMCalls = [c \in DOMAIN characters |-> 0]
    /\ llm = [j \in 1..MaxLLM |-> NoJob]
    /\ calls = [k \in 1..Len(Callers) |-> NoCall]
    /\ time = T(18, 0)
    /\ isGameOver = FALSE
    /\ currentRoomId = "foyer"
    /\ characterPositions = [c \in DOMAIN characters |-> "foyer"]
    /\ lastTick = [op |-> Null]
    /\ freeCommands = 0

\* The end of parseCommand: the tick is dispatched with the time, the player's
\* room and the Character objects as the command left them
DispatchTick(d, timeStr, over, playerRoomId, free) ==
    \E g \in {DirectorTick(d, characterPositions, timeStr, playerRoomId)} :
        /\ ~g.d.full
        /\ characters' = g.d.characters
        /\ pendingLLMCalls' = g.d.pendingLLMCalls
        /\ llm' = g.d.llm
        /\ calls' = g.d.calls
        /\ characterPositions' = g.positions
        /\ time' = timeStr
        /\ isGameOver' = over
        /\ currentRoomId' = playerRoomId
        /\ freeCommands' = free
        /\ lastTick' = TickRecord(timeStr, playerRoomId, RoomsOf(d.characters), g)
        /\ UNCHANGED <<scoutVars, llmVars, graphVars, q, schedVars, sq, genAI>>

\* A command that advances the clock by five minutes before the tick
TimedCommand(d, playerRoomId) ==
    \E a \in {AdvanceTime(d.characters, time, isGameOver, 5)} :
        \E d1 \in {[d EXCEPT !.characters = a.characters]} :
            DispatchTick(d1, a.time, a.isGameOver, playerRoomId, freeCommands)

\* parseCommand("look") and parseCommand("wait")
CommandLook ==
    /\ ~isGameOver
    /\ TimedCommand(DestinyState, currentRoomId)

\* GameEngine.handleMove: parseCommand with a direction
CommandMove(direction) ==
    /\ ~isGameOver
    /\ LET exits == IF currentRoomId \in DOMAIN adjacency THEN adjacency[currentRoomId] ELSE <<>>
           found == {i \in 1..Len(exits) : exits[i].dir = direction}
       IN  IF found # {}
           THEN TimedCommand(DestinyState, exits[CHOOSE i \in found : TRUE].to)
           ELSE /\ freeCommands < MaxFreeCommands
                /\ DispatchTick(DestinyState, time, isGameOver, currentRoomId,
                                freeCommands + 1)

\* GameEngine.handleTalk: parseCommand("talk to <name>"); only an actor in the
\* player's room is asked
CommandTalk(targetId) ==
    /\ ~isGameOver
    /\ IF targetId \in DOMAIN characters
          /\ characters[targetId].currentRoomId = currentRoomId
       THEN TimedCommand(GetTalkResponse(NewCall(DestinyState, 1, "talk", targetId, <<>>), 1),
                         currentRoomId)
       ELSE TimedCommand(DestinyState, currentRoomId)

\* parseCommand with a verb that takes no game time (help, an unknown verb)
CommandOther ==
    /\ ~isGameOver
    /\ freeCommands < MaxFreeCommands
    /\ DispatchTick(DestinyState, time, isGameOver, currentRoomId, freeCommands + 1)

Next ==
    \/ CommandLook
    \/ \E direction \in {"north", "east", "south", "west"} : CommandMove(direction)
    \/ CommandTalk("char_6_doctor")
    \/ CommandOther

Spec == InitGame /\ [][Next]_vars

-----------------------------------------------------------------------------
(* ExecutiveDirector driven by a caller: the schedule is generated for a    *)
(* cast of two guests, Destiny inserts events, and then tasks are           *)
(* dispatched                                                               *)

\* The world graphs of the runs: the line foyer - living_room - dining_room,
\* and a graph whose dining_room is cut off and whose living_room has an exit
\* to a room that does not exist
LinearGraph ==
    [ foyer |-> ExitsOf(<<"living_room">>),
      living_room |-> ExitsOf(<<"foyer", "dining_room">>),
      dining_room |-> ExitsOf(<<"living_room">>) ]

CutGraph ==
    [ foyer |-> ExitsOf(<<"living_room">>),
      living_room |-> ExitsOf(<<"foyer", UnknownRoom>>),
      dining_room |-> ExitsOf(<<>>) ]

DirectorCast == << [id |-> "c1", role |-> "Guest"], [id |-> "c2", role |-> "Guest"] >>

\* Times of day the caller ticks at, and times and actions of inserted events
DirectorTimes == << T(18, 0), T(18, 5), T(18, 10) >>

\* The events Destiny inserts for c1: on the way to the dining room at either
\* time, one with an empty action text, one in a room that does not exist
InsertedEvents ==
    { Event(T(18, 5), "Checks the wine", "dining_room"),
      Event(T(18, 10), "Checks the wine", "dining_room"),
      Event(T(18, 5), "", "dining_room"),
      Event(T(18, 5), "Checks the wine", UnknownRoom) }

\* Task types dispatch is called with; the last one is not routed
TaskTypes == { "get_schedule", "tick", "get_weather" }

\* c1 starts in the foyer and c2 in another room; Grafitti either holds the
\* actors' positions or has not been told of any
InitDirector ==
    /\ LlmIdle
    /\ ScoutIdle
    /\ rooms = RoomIds
    /\ adjacency \in {LinearGraph, CutGraph}
    /\ q = NoQuery
    /\ scheduled = FALSE /\ cachedSchedule = <<>> /\ scheduleKeys = <<>>
    /\ added = 0 /\ sq = NoSchedCall /\ held = NothingHeld
    /\ genAI = FALSE
    /\ \E r2 \in RoomIds \ {"foyer"} :
          characters = [c \in CharIds |-> Character(IF c = "c1" THEN "foyer" ELSE r2)]
    /\ pendingLLMCalls = [c \in CharIds |-> 0]
    /\ llm = [j \in 1..MaxLLM |-> NoJob]
    /\ calls = [k \in 1..Len(Callers) |-> NoCall]
    /\ time = T(18, 0) /\ isGameOver = FALSE /\ currentRoomId = "foyer"
    /\ characterPositions \in {RoomsOf(characters), <<>>}
    /\ lastTick = [op |-> Null, trail |-> <<>>]
    /\ freeCommands = 0

\* The tick a caller asks for next: one every five minutes from 18:00
NextTickTimes ==
    {DirectorTimes[n] : n \in {Len(lastTick.trail) + 1} \cap DOMAIN DirectorTimes}

\* dispatch of a tick task: ExecutiveDirector.tick on the Character objects of
\* the payload, which are the objects Destiny holds
DispatchTickTask(task) ==
    /\ task.time \in NextTickTimes
    /\ \E g \in {DirectorTick(DestinyState, characterPositions, task.time,
                              task.playerRoomId)} :
          /\ characters' = g.d.characters
          /\ pendingLLMCalls' = g.d.pendingLLMCalls
          /\ llm' = g.d.llm
          /\ calls' = g.d.calls
          /\ characterPositions' = g.positions
          /\ lastTick' =
                [trail |-> Append(lastTick.trail,
                                  [time |-> task.time,
                                   playerRoomId |-> task.playerRoomId,
                                   rooms |-> RoomsOf(g.d.characters),
                                   moved |-> g.moved,
                                   messages |-> g.messages])]
                  @@ TickRecord(task.time, task.playerRoomId, RoomsOf(characters), g)
    /\ UNCHANGED <<scoutVars, llmVars, graphVars, q, schedVars, sq, genAI, time, isGameOver,
                   currentRoomId, freeCommands>>

\* dispatch handing every task that is not a tick to the Scheduler as a
\* get_schedule task
DispatchQueryToScheduler(task) ==
    /\ sq' = [op |-> "dispatch", type |-> task.type, threw |-> FALSE,
              result |-> HandleTask([task EXCEPT !.type = "get_schedule"])]
    /\ held' = IF task.type = "get_schedule"
               THEN [held EXCEPT !.dispatch = sq'.result] ELSE held
    /\ UNCHANGED <<scoutVars, llmVars, graphVars, q, scheduled, cachedSchedule, scheduleKeys, added,
                   destinyVars, gameVars>>

\* dispatch of get_schedule, routed to the Scheduler, and the final return
\* null for a type that is not routed
DispatchQuery(task) ==
    /\ sq' = [op |-> "dispatch", type |-> task.type, threw |-> FALSE,
              result |-> IF task.type = "get_schedule"
                         THEN HandleTask([task EXCEPT !.type = "get_schedule"])
                         ELSE NullReference]
    /\ held' = IF task.type = "get_schedule"
               THEN [held EXCEPT !.dispatch = sq'.result] ELSE held
    /\ UNCHANGED <<scoutVars, llmVars, graphVars, q, scheduled, cachedSchedule, scheduleKeys, added,
                   destinyVars, gameVars>>

\* ExecutiveDirector.dispatch
Dispatch(task) ==
    IF task.type = "tick" THEN DispatchTickTask(task) ELSE DispatchQuery(task)

\* The schedule is produced before the caller starts ticking
NextDirector ==
    \/ lastTick.trail = <<>> /\ Work(DirectorCast, FALSE, <<>>)
    \/ \E e \in InsertedEvents :
          lastTick.trail = <<>> /\ AddEvent("c1", e.time, e.action, e.locationId)
    \/ \E timeStr \in NextTickTimes, playerRoomId \in RoomIds :
          Dispatch([type |-> "tick", time |-> timeStr, playerRoomId |-> playerRoomId])
    \/ \E type \in TaskTypes \ {"tick"} :
          Dispatch([type |-> type, time |-> Null, playerRoomId |-> Null])
    \/ \E type \in {"get_schedule", "get_story"} : HandleTaskCall([type |-> type])

SpecDirector == InitDirector /\ [][NextDirector]_vars

-----------------------------------------------------------------------------
(* The game with an API key: player commands, the ticks they end with, and  *)
(* the collaborator's calls settling between and during the commands, on    *)
(* the line of three rooms with a cast of two guests                        *)

\* Largest number of five-minute turns the clock is taken through
MaxTurns == 3

\* Generations in flight at a time in these runs: the one a talk command waits
\* for, beside those of the other callers
PlayJobs == MaxLLM + 1

\* The generated events of the guests: c2 goes next door at 18:05, c1 walks
\* through that room to the dining room from 18:10
PlayDynamic ==
    [ c1 |-> << Event(T(18, 10), "Checks the wine", "dining_room") >>,
      c2 |-> << Event(T(18, 5), "wanders off", "living_room") >> ]

\* What the collaborator answers in these runs: a rejection, or a pool of one
\* string; a rejection, or a reaction text
PlayPoolOutcomes ==
    { PoolOutcome(TRUE, FALSE, FALSE, <<>>),
      PoolOutcome(FALSE, TRUE, TRUE, << JsonString(<<"r1">>) >>) }

PlayTextOutcomes ==
    { [fails |-> TRUE, text |-> <<>>],
      [fails |-> FALSE, text |-> <<" ", "e1", " ">>] }

\* Every generation in flight settles, in the order in which it was started
RECURSIVE SettleAll(_, _, _)
SettleAll(d, j, fails) ==
    IF j > Len(d.llm) THEN d
    ELSE IF d.llm[j].promise # "pending" THEN SettleAll(d, j + 1, fails)
    ELSE IF d.llm[j].kind = "pool"
    THEN SettleAll(SettlePool(d, j, CHOOSE o \in PlayPoolOutcomes : o.fails = fails),
                   j + 1, fails)
    ELSE SettleAll(SettleReaction(d, j, CHOOSE o \in PlayTextOutcomes : o.fails = fails),
                   j + 1, fails)

\* The game after GameEngine.initialize, once the generations started by it
\* (a pool for every guest, a reaction to every arrival) have settled, all
\* with success or all with failure
InitPlay ==
    /\ LlmIdle
    /\ ScoutIdle
    /\ rooms = RoomIds
    /\ adjacency = LinearGraph
    /\ q = NoQuery
    /\ scheduled = TRUE
    /\ cachedSchedule = FullSchedule(DirectorCast, PlayDynamic)
    /\ scheduleKeys = CastIds(DirectorCast)
    /\ added = 0
    /\ sq = NoSchedCall
    /\ held = [NothingHeld EXCEPT !.work = CachedReference]
    /\ genAI = TRUE
    /\ \E fails \in BOOLEAN :
          characters =
              LET d == [characters |-> [c \in CharIds |-> Character("foyer")],
                        pendingLLMCalls |-> [c \in CharIds |-> 0],
                        llm |-> [j \in 1..(2 * Cardinality(CharIds)) |-> NoJob],
                        calls |-> [k \in 1..Len(Callers) |-> NoCall],
                        last |-> 1, full |-> FALSE]
              IN  SettleAll(RecordStartEvents(PrepareAllResponses(d), 1), 1, fails).characters
    /\ pendingLLMCalls = [c \in CharIds |-> 0]
    /\ llm = [j \in 1..PlayJobs |-> NoJob]
    /\ calls = [k \in 1..Len(Callers) |-> NoCall]
    /\ time = T(18, 0)
    /\ isGameOver = FALSE
    /\ currentRoomId = "foyer"
    /\ characterPositions = [c \in CharIds |-> "foyer"]
    /\ lastTick = [op |-> Null]
    /\ freeCommands = 0

\* The player enters a command while the clock is short of the last turn
Accepting ==
    /\ ~isGameOver
    /\ TimeToMinutes(time) < TimeToMinutes(T(18, 0)) + 5 * MaxTurns

\* parseCommand("look")
PlayLook ==
    /\ Accepting
    /\ TimedCommand(DestinyState, currentRoomId)

\* parseCommand with a direction
PlayMove(direction) ==
    /\ Accepting
    /\ \E i \in 1..Len(adjacency[currentRoomId]) :
          /\ adjacency[currentRoomId][i].dir = direction
          /\ CommandMove(direction)

\* parseCommand("talk to <name>") for an actor in the player's room, entered
\* when no earlier talk command is waiting for its answer: the command runs up
\* to the await in handleTalk; when getTalkResponse returned without waiting,
\* the command goes on to advance the clock and to dispatch the tick
PlayTalk(targetId) ==
    /\ Accepting
    /\ characters[targetId].currentRoomId = currentRoomId
    /\ \A k \in DOMAIN calls : calls[k].promise # "pending"
    /\ \E d \in {GetTalkResponse(NewCall(DestinyState, 1, "talk", targetId, <<>>), 1)} :
          IF d.calls[1].promise = "pending"
          THEN SetDestiny(d)
          ELSE TimedCommand(d, currentRoomId)

\* A generateContent call settles. When that lets the getTalkResponse call of
\* a waiting talk command return, the command goes on from its await: it
\* advances the clock and dispatches the tick
PlaySettle(j, outcome) ==
    /\ llm[j].promise = "pending"
    /\ \E d \in {IF llm[j].kind = "pool"
                 THEN SettlePool(DestinyState, j, outcome)
                 ELSE SettleReaction(DestinyState, j, outcome)} :
          IF \E k \in DOMAIN calls :
                 calls[k].promise = "pending" /\ d.calls[k].promise # "pending"
          THEN TimedCommand(d, currentRoomId)
          ELSE SetDestiny(d)

NextPlay ==
    \/ PlayLook
    \/ \E direction \in {"north", "east"} : PlayMove(direction)
    \/ \E targetId \in CharIds : PlayTalk(targetId)
    \/ \E j \in 1..PlayJobs :
          \/ \E outcome \in PlayPoolOutcomes : llm[j].kind = "pool" /\ PlaySettle(j, outcome)
          \/ \E outcome \in PlayTextOutcomes : llm[j].kind = "reaction" /\ PlaySettle(j, outcome)

SpecPlay == InitPlay /\ [][NextPlay]_vars

-----------------------------------------------------------------------------
(* The same game played on until midnight: the player looks around and      *)
(* talks, whatever the hour, until parseCommand refuses commands; a talk    *)
(* command that is waiting in handleTalk goes on when its answer arrives    *)

\* parseCommand("look") while the game is not over
LateLook ==
    /\ ~isGameOver
    /\ TimedCommand(DestinyState, currentRoomId)

\* parseCommand("talk to <name>") while the game is not over, entered when no
\* earlier talk command is waiting for its answer
LateTalk(targetId) ==
    /\ ~isGameOver
    /\ characters[targetId].currentRoomId = currentRoomId
    /\ \A k \in DOMAIN calls : calls[k].promise # "pending"
    /\ \E d \in {GetTalkResponse(NewCall(DestinyState, 1, "talk", targetId, <<>>), 1)} :
          IF d.calls[1].promise = "pending"
          THEN SetDestiny(d)
          ELSE TimedCommand(d, currentRoomId)

NextLate ==
    \/ LateLook
    \/ \E targetId \in CharIds : LateTalk(targetId)
    \/ \E j \in 1..PlayJobs :
          \/ \E outcome \in PlayPoolOutcomes : llm[j].kind = "pool" /\ PlaySettle(j, outcome)
          \/ \E outcome \in PlayTextOutcomes : llm[j].kind = "reaction" /\ PlaySettle(j, outcome)

SpecLate == InitPlay /\ [][NextLate]_vars

-----------------------------------------------------------------------------
(* Grafitti driven by its callers: the graph is initialized again and       *)
(* again, the actors' positions are recorded and changed, and paths are     *)
(* asked for in between                                                     *)

\* The locations Grafitti.initialize is called with: the two graphs of three
\* rooms and a map of two rooms without a dining room
SmallGraph ==
    [ foyer |-> ExitsOf(<<"living_room">>),
      living_room |-> ExitsOf(<<"foyer">>) ]

Locations == {LinearGraph, CutGraph, SmallGraph}

\* The casts initializeCharacters is called with: an actor's room, Null for
\* an actor without one
WorldCasts ==
    { [c1 |-> "living_room", c2 |-> Null], [c1 |-> "dining_room"] }

\* Grafitti after its construction
InitWorld ==
    /\ LlmIdle
    /\ ScoutIdle
    /\ rooms = {} /\ adjacency = <<>> /\ q = [op |-> Null]
    /\ scheduled = FALSE /\ cachedSchedule = <<>> /\ scheduleKeys = <<>>
    /\ added = 0 /\ sq = NoSchedCall /\ held = NothingHeld
    /\ DestinyIdle
    /\ GameIdle

\* initialize without the two clear() calls
GrafittiInitializeOver(locations) ==
    /\ rooms' = rooms \cup DOMAIN locations
    /\ adjacency' = locations @@ adjacency
    /\ q' = [op |-> "initialize", locations |-> locations]
    /\ UNCHANGED <<scoutVars, llmVars, schedVars, sq, destinyVars, gameVars>>

\* Grafitti.initialize
GrafittiInitialize(locations) ==
    /\ rooms' = DOMAIN locations
    /\ adjacency' = locations
    /\ q' = [op |-> "initialize", locations |-> locations]
    /\ UNCHANGED <<scoutVars, llmVars, schedVars, sq, destinyVars, gameVars>>

\* Grafitti.initializeCharacters
InitializeCharacters(cast) ==
    /\ characterPositions' =
          [c \in DOMAIN cast |-> IF cast[c] = Null THEN "foyer" ELSE cast[c]]
    /\ q' = [op |-> "initializeCharacters"]
    /\ UNCHANGED <<scoutVars, llmVars, graphVars, schedVars, sq, destinyVars, time, isGameOver,
                   currentRoomId, lastTick, freeCommands>>

\* A caller of Grafitti.moveCharacter
CallMoveCharacter(charId, newRoomId) ==
    /\ characterPositions' = MoveCharacter(characterPositions, charId, newRoomId)
    /\ q' = [op |-> "moveCharacter"]
    /\ UNCHANGED <<scoutVars, llmVars, graphVars, schedVars, sq, destinyVars, time, isGameOver,
                   currentRoomId, lastTick, freeCommands>>

\* A caller of Grafitti.findPath and getNextStep
CallFindPath(startId, targetId) ==
    /\ q' = [op |-> "findPath", start |-> startId, target |-> targetId,
             path |-> FindPath(startId, targetId),
             next |-> GetNextStep(startId, targetId)]
    /\ UNCHANGED <<scoutVars, llmVars, graphVars, schedVars, sq, destinyVars, gameVars>>

NextWorld ==
    \/ \E locations \in Locations : GrafittiInitialize(locations)
    \/ \E cast \in WorldCasts : InitializeCharacters(cast)
    \/ \E newRoomId \in AnyRoomId : CallMoveCharacter("c1", newRoomId)
    \/ \E startId \in {"foyer"}, targetId \in AnyRoomId : CallFindPath(startId, targetId)

SpecWorld == InitWorld /\ [][NextWorld]_vars

-----------------------------------------------------------------------------
(* llmUtil driven by its callers: connect, generate, and the settling of    *)
(* the promises of webLlmConnect and webLlmGenerate                         *)

\* Largest number of generate calls in one run
MaxRequests == 3

\* The prompts generate is called with
Prompts == {"p1", "p2"}

\* What webLlmConnect may do: return true having set the connection type or
\* not, return false, or throw
ConnectOutcomes == {"webllm", "untyped", "false", "throws"}

\* What webLlmGenerate may do: return a text, return the empty text, or throw
GenerateOutcomes == {"text", "", "throws"}

\* The requests that await _connectionPromise go on once it is settled, in
\* the order in which they began to wait
RECURSIVE ResumeWaiting(_, _, _, _)
ResumeWaiting(queue, n, connection, connected) ==
    IF n > Len(queue) THEN [connection |-> connection, queue |-> queue]
    ELSE IF queue[n].phase # "waitingInit"
    THEN ResumeWaiting(queue, n + 1, connection, connected)
    ELSE IF ~connected
    THEN ResumeWaiting([queue EXCEPT ![n].phase = "rejected",
                                     ![n].result = "connect failed"],
                       n + 1, connection, connected)
    ELSE LET r == CheckAndGenerate(n, connection)
         IN  ResumeWaiting([queue EXCEPT ![n] = r.request], n + 1, r.connection, connected)

InitLlm ==
    /\ LlmIdle /\ ScoutIdle
    /\ rooms = {} /\ adjacency = <<>> /\ q = [op |-> Null]
    /\ scheduled = FALSE /\ cachedSchedule = <<>> /\ scheduleKeys = <<>>
    /\ added = 0 /\ sq = [op |-> Null] /\ held = NothingHeld
    /\ DestinyIdle
    /\ GameIdle

\* connect
Connect ==
    /\ IF theConnection.state = "INITIALIZING" /\ connectionPromise
       THEN UNCHANGED <<theConnection, connectionPromise>>
       ELSE IF IsLlmConnected(theConnection)
       THEN UNCHANGED <<theConnection, connectionPromise>>
       ELSE /\ theConnection' = [theConnection EXCEPT !.state = "INITIALIZING"]
            /\ connectionPromise' = TRUE
    /\ UNCHANGED <<scoutVars, generationQueue, promptCache, graphVars, q, schedVars, sq,
                   destinyVars, gameVars>>

\* The async function of connect once webLlmConnect has settled, and the
\* requests that waited for it
ConnectSettles(outcome) ==
    /\ connectionPromise
    /\ LET connection ==
              IF outcome = "webllm"
              THEN [state |-> "READY", connectionType |-> "WEBLLM"]
              ELSE IF outcome = "untyped"
              THEN [theConnection EXCEPT !.state = "READY"]
              ELSE IF outcome = "false"
              THEN ClearConnection(theConnection)
              ELSE [theConnection EXCEPT !.state = "INIT_FAILED"]
           r == ResumeWaiting(generationQueue, 1, connection,
                              outcome \in {"webllm", "untyped"})
       IN  /\ theConnection' = r.connection
           /\ generationQueue' = r.queue
    /\ connectionPromise' = FALSE
    /\ UNCHANGED <<scoutVars, promptCache, graphVars, q, schedVars, sq, destinyVars, gameVars>>

\* generate: the request is chained to the queue
Generate(prompt) ==
    /\ Len(generationQueue) < MaxRequests
    /\ generationQueue' = Append(generationQueue, Request(prompt))
    /\ UNCHANGED <<scoutVars, theConnection, connectionPromise, promptCache, graphVars, q,
                   schedVars, sq, destinyVars, gameVars>>

\* The callback generate chained to the queue runs: _generateInternal up to
\* its first await
Start(n) ==
    /\ n \in DOMAIN generationQueue
    /\ generationQueue[n].phase = "queued"
    /\ ChainSettled(n)
    /\ LET request == [generationQueue[n] EXCEPT !.startedAt = StartedCount + 1]
           queue == [generationQueue EXCEPT ![n] = request]
       IN  IF HasCachedResponse(request.prompt)
           THEN /\ generationQueue' =
                      [queue EXCEPT ![n].phase = "resolved",
                                    ![n].result = GetCachedPromptResponse(request.prompt)]
                /\ UNCHANGED theConnection
           ELSE IF theConnection.state = "INITIALIZING" /\ connectionPromise
           THEN /\ generationQueue' = [queue EXCEPT ![n].phase = "waitingInit"]
                /\ UNCHANGED theConnection
           ELSE LET r == CheckAndGenerate(n, theConnection)
                IN  /\ generationQueue' =
                          [queue EXCEPT ![n].phase = r.request.phase,
                                        ![n].result = r.request.result]
                    /\ theConnection' = r.connection
    /\ UNCHANGED <<scoutVars, connectionPromise, promptCache, graphVars, q, schedVars, sq,
                   destinyVars, gameVars>>

\* webLlmGenerate settles: the finally block, and on success the cache and
\* the return of the message
GenerateSettles(n, outcome) ==
    /\ n \in DOMAIN generationQueue
    /\ generationQueue[n].phase = "generating"
    /\ theConnection' = AfterAttempt(theConnection)
    /\ IF outcome = "throws"
       THEN /\ generationQueue' = [generationQueue EXCEPT ![n].phase = "rejected",
                                                          ![n].result = "generation failed"]
            /\ UNCHANGED promptCache
       ELSE /\ generationQueue' = [generationQueue EXCEPT ![n].phase = "resolved",
                                                          ![n].result = outcome]
            /\ promptCache' =
                  SetCachedPromptResponse(promptCache, generationQueue[n].prompt, outcome)
    /\ UNCHANGED <<scoutVars, connectionPromise, graphVars, q, schedVars, sq, destinyVars, gameVars>>

NextLlm ==
    \/ Connect
    \/ \E outcome \in ConnectOutcomes : ConnectSettles(outcome)
    \/ \E prompt \in Prompts : Generate(prompt)
    \/ \E n \in 1..MaxRequests : Start(n)
    \/ \E n \in 1..MaxRequests, outcome \in GenerateOutcomes : GenerateSettles(n, outcome)

SpecLlm == InitLlm /\ [][NextLlm]_vars

\* Every callback that can run does run, and every promise of the model
\* settles: the event loop runs the jobs it holds
SpecLlmLive ==
    /\ SpecLlm
    /\ WF_vars(\E outcome \in ConnectOutcomes : ConnectSettles(outcome))
    /\ WF_vars(\E n \in 1..MaxRequests : Start(n))
    /\ WF_vars(\E n \in 1..MaxRequests, outcome \in GenerateOutcomes : GenerateSettles(n, outcome))

-----------------------------------------------------------------------------
(* LocationScout.work on bounded grids                                      *)

\* Direction labels of the generated grids: two opposite ones and one that
\* has no opposite
GridDirs == <<"north", "south", "secret">>

\* The exits a generated room may have: for every label none or an exit to a
\* room or to an id no room has, in the order of GridDirs
RECURSIVE ExitsFrom(_, _)
ExitsFrom(choice, i) ==
    IF i > Len(GridDirs) THEN <<>>
    ELSE (IF choice[i] = Null THEN <<>> ELSE <<Exit(GridDirs[i], choice[i])>>)
         \o ExitsFrom(choice, i + 1)

CardinalExits ==
    { ExitsFrom(choice, 1) :
        choice \in { c \in [1..Len(GridDirs) -> AnyRoomId \cup {Null}] : c[3] = Null } }

AnyExits ==
    { ExitsFrom(choice, 1) : choice \in [1..Len(GridDirs) -> AnyRoomId \cup {Null}] }

\* The grids the generation may answer with: three rooms in a fixed order
Grids ==
    { << Room("foyer", e1), Room("living_room", e2), Room("dining_room", e3) >> :
        e1 \in AnyExits, e2 \in CardinalExits, e3 \in CardinalExits }

InitScout ==
    /\ generatedRooms \in Grids
    /\ cachedRooms = <<>>
    /\ LlmIdle
    /\ rooms = {} /\ adjacency = <<>> /\ q = [op |-> Null]
    /\ scheduled = FALSE /\ cachedSchedule = <<>> /\ scheduleKeys = <<>>
    /\ added = 0 /\ sq = [op |-> Null] /\ held = NothingHeld
    /\ DestinyIdle
    /\ GameIdle

\* LocationScout.work from the validation on: the rooms are fixed in place
\* and cached
ScoutWork ==
    /\ cachedRooms = <<>>
    /\ generatedRooms' = ValidateAndFixGrid(generatedRooms)
    /\ cachedRooms' = generatedRooms'
    /\ UNCHANGED <<llmVars, graphVars, q, schedVars, sq, destinyVars, gameVars>>

NextScout == ScoutWork

SpecScout == InitScout /\ [][NextScout]_vars

-----------------------------------------------------------------------------
(* Reference notions the claims are stated with *)

\* b is a direct exit target of room a
Edge(a, b) == a \in DOMAIN adjacency /\ \E i \in 1..Len(adjacency[a]) : adjacency[a][i].to = b

\* Ids reachable from a set of ids in exactly one hop
StepFrom(S) == {b \in AnyRoomId : \E a \in S : Edge(a, b)}

\* Ids reachable from start in at most k hops
RECURSIVE Within(_, _)
Within(startId, k) ==
    IF k = 0 THEN {startId}
    ELSE LET prev == Within(startId, k - 1) IN prev \cup StepFrom(prev)

Reachable(startId, targetId) == targetId \in Within(startId, Cardinality(AnyRoomId))

\* The least number of hops from start to a reachable target
HopCount(startId, targetId) ==
    CHOOSE k \in 0..Cardinality(AnyRoomId) :
        /\ targetId \in Within(startId, k)
        /\ \A j \in 0..(k - 1) : targetId \notin Within(startId, j)

\* start and target are rooms of the graph, different, and joined by directed exits
HasPath(startId, targetId) ==
    /\ startId # targetId
    /\ startId \in rooms /\ targetId \in rooms
    /\ Reachable(startId, targetId)

-----------------------------------------------------------------------------
(* Claims about Destiny *)

\* C1: at every moment at most one generateContent call is in flight per actor
\* id, whichever of recordWitnessedEvent (reaction and pool refresh),
\* prepareAllResponses and getTalkResponse started it.
C1_OneJobInFlightPerActor ==
    \A charId \in CharIds : Cardinality(InFlight(DestinyState, charId)) <= 1

\* C2: when a getTalkResponse call is made for an actor while another one, made
\* with no pool and no generation in flight, still waits for the generation it
\* started, the two make exactly one generateContent call between them, and
\* neither is rejected or fulfilled with an empty string.
C2_ConcurrentTalkMakesOneCall ==
    \A b \in DOMAIN calls :
        calls[b].joined # 0 =>
            /\ calls[calls[b].joined].made + calls[b].made = 1
            /\ \A k \in {calls[b].joined, b} :
                  /\ calls[k].promise # "rejected"
                  /\ calls[k].promise = "fulfilled" => calls[k].value # <<>>

\* C3: no getTalkResponse or getEventResponse call is rejected, whatever the
\* actor id and the memory entry and however the generateContent calls come
\* back; a fulfilled call carries a string, and a call not yet fulfilled awaits
\* a generateContent call that is in flight.
C3_CallsResolveToStrings ==
    \A k \in DOMAIN calls :
        /\ calls[k].promise # "rejected"
        /\ calls[k].promise = "fulfilled" => calls[k].typeof = "string"
        /\ calls[k].promise = "pending" =>
              \E j \in DOMAIN llm :
                  /\ llm[j].promise = "pending"
                  /\ \E i \in 1..Len(llm[j].waiters) : llm[j].waiters[i] = k

\* The queued generation of an actor that has not settled, as a set
QueuedUnsettled(charId) ==
    {j \in DOMAIN llm : llm[j].queued /\ llm[j].charId = charId
                          /\ llm[j].promise = "pending"}

\* C4: pendingLLMCalls holds an entry for an actor exactly while a queued
\* generation for that actor is unsettled, and the entry is that generation: it
\* is removed when the generation settles, by success or by failure, and not
\* earlier.
C4_EntryHeldWhileQueuedJobUnsettled ==
    \A charId \in DOMAIN pendingLLMCalls :
        IF pendingLLMCalls[charId] = 0
        THEN QueuedUnsettled(charId) = {}
        ELSE QueuedUnsettled(charId) = {pendingLLMCalls[charId]}

\* A call has awaited a queued generation that failed, and a later request has
\* queued a new one
C4_Witness ==
    \E k \in DOMAIN calls :
        /\ calls[k].sawQueuedFail
        /\ calls[k].charId \in DOMAIN pendingLLMCalls
        /\ pendingLLMCalls[calls[k].charId] # 0

-----------------------------------------------------------------------------
(* Claims about the Scheduler *)

\* The timetable is in ascending order of its times of day
SortedByMinutes(events) ==
    \A i, j \in 1..Len(events) :
        i < j => TimeToMinutes(events[i].time) <= TimeToMinutes(events[j].time)

\* Indices of the entries that have started at minute t of the day
Started(events, t) == {i \in 1..Len(events) : TimeToMinutes(events[i].time) <= t}

\* The entry with the greatest time <= t (the last listed of equal times)
LatestStarted(events, t) ==
    CHOOSE i \in Started(events, t) :
        \A j \in Started(events, t) :
            \/ TimeToMinutes(events[j].time) < TimeToMinutes(events[i].time)
            \/ (TimeToMinutes(events[j].time) = TimeToMinutes(events[i].time) /\ j <= i)

IntentsFor(charId) == {i \in 1..Len(sq.intents) : sq.intents[i].charId = charId}

Midnight == T(0, 0)

\* C7: a timetable entry at 00:00 (end of day) compares as 24:00: it is listed
\* after every same-day entry of the actor, and before midnight a tick never
\* takes it as the target.
C7_MidnightComparesAsEndOfDay ==
    scheduled =>
        \A charId \in DOMAIN cachedSchedule :
            LET events == cachedSchedule[charId]
            IN  /\ \A i, j \in 1..Len(events) :
                      (events[i].time = Midnight /\ events[j].time # Midnight) => j < i
                /\ (sq.op = "tick" /\ sq.time # Midnight /\ charId \in DOMAIN sq.characters) =>
                      LET target == GetTargetEvent(events, TimeToMinutes(sq.time))
                      IN  target # 0 => events[target].time # Midnight

-----------------------------------------------------------------------------
(* Claims about the world graph *)

\* The path is a walk along direct exits that starts at start's exits
IsWalk(startId, path) ==
    \A i \in 1..Len(path) : Edge(IF i = 1 THEN startId ELSE path[i - 1], path[i])

\* C8: for every pair (start, target) with target reachable from start along
\* directed exits, findPath returns a path of the shortest hop count, listing the
\* rooms after start up to and including target; for start = target and for
\* every unreachable pair it returns the empty list.
C8_FindPathShortest ==
    q.start # Null =>
        IF HasPath(q.start, q.target)
        THEN /\ Len(q.path) = HopCount(q.start, q.target)
             /\ q.path[Len(q.path)] = q.target
             /\ IsWalk(q.start, q.path)
        ELSE q.path = <<>>

\* A query answered with a two-hop path although the start has another exit
C8_Witness ==
    /\ q.start # Null
    /\ HasPath(q.start, q.target)
    /\ Len(q.path) = 2
    /\ Len(adjacency[q.start]) = 2

\* C9: getNextStep(a, b) is the first element of findPath(a, b) whenever a path
\* exists and null otherwise; getNextStep(a, a) is null.
C9_NextStepIsFirstHop ==
    q.start # Null =>
        /\ HasPath(q.start, q.target) => (Len(q.path) > 0 /\ q.next = q.path[1])
        /\ ~HasPath(q.start, q.target) => q.next = Null
        /\ q.start = q.target => q.next = Null

\* A query whose path has more than one hop, so that its first hop is not the target
C9_Witness ==
    /\ q.start # Null
    /\ HasPath(q.start, q.target)
    /\ Len(q.path) >= 2
    /\ q.next = q.path[1]
    /\ q.next # q.target

-----------------------------------------------------------------------------
(* Claims about the game's ticks *)

\* C5: in every tick an actor's location changes by at most one hop: the room
\* the tick moves an actor to is a direct exit of the room the actor held just
\* before the tick.
C5_TickMovesOneHop ==
    lastTick.op = "tick" =>
        \A c \in DOMAIN lastTick.before :
            lastTick.after[c] # lastTick.before[c]
                => Edge(lastTick.before[c], lastTick.after[c])

\* C10: recordWitnessedEvent never appends an entry to the acting actor's own
\* log: no log holds an entry whose witnessed actor is the owner of the log, and
\* every entry was appended to an actor that stood in the event's room at the
\* time of the call.
C10_WitnessesAreOthersInTheRoom ==
    \A c \in DOMAIN characters :
        \A n \in 1..Len(characters[c].memory) :
            /\ characters[c].memory[n].witnessedCharId # c
            /\ characters[c].memory[n].at = characters[c].memory[n].roomId

\* A tick has moved an actor into a room where another actor stood and saw it,
\* while a third actor elsewhere did not
C10_Witness ==
    /\ lastTick.op = "tick"
    /\ \E actor \in DOMAIN characters, c \in DOMAIN characters, other \in DOMAIN characters :
          /\ lastTick.after[actor] # lastTick.before[actor]
          /\ c # actor
          /\ Len(characters[c].memory) > 0
          /\ LET entry == characters[c].memory[Len(characters[c].memory)]
             IN  /\ entry.witnessedCharId = actor
                 /\ entry.time = lastTick.time
                 /\ entry.roomId = lastTick.after[actor]
                 /\ entry.roomId # "foyer"
          /\ other # actor
          /\ characters[other].currentRoomId # lastTick.after[actor]

\* The lines of a tick that are about one actor
LinesAbout(tick, charId) ==
    {n \in 1..Len(tick.messages) : tick.messages[n].charId = charId}

\* The hops a tick made with one actor
HopsOf(tick, charId) == {n \in 1..Len(tick.moved) : tick.moved[n].charId = charId}

\* A schedule that says of c1 to be in the dining room at 18:10
SaysDiningRoomAt1810(schedule) ==
    /\ "c1" \in DOMAIN schedule
    /\ \E n \in 1..Len(schedule["c1"]) :
          /\ schedule["c1"][n].time = T(18, 10)
          /\ schedule["c1"][n].locationId = "dining_room"

\* C11: on the line foyer - living_room - dining_room, with c1 starting in the
\* foyer and a schedule that says to be in the dining room by 18:10, the ticks
\* at 18:00, 18:05 and 18:10 leave c1 in the foyer, the living room and the
\* dining room, and a tick has lines about c1 only when the player stands in
\* the room c1 leaves or enters
C11_ArrivesByTheScheduledTime ==
    LET trail == lastTick.trail
    IN  (/\ adjacency = LinearGraph
         /\ Len(trail) = 3
         /\ SaysDiningRoomAt1810(cachedSchedule))
        => /\ trail[1].rooms["c1"] = "foyer"
           /\ trail[2].rooms["c1"] = "living_room"
           /\ trail[3].rooms["c1"] = "dining_room"
           /\ \A n \in 1..3 :
                 LinesAbout(trail[n], "c1") # {}
                     => \E h \in HopsOf(trail[n], "c1") :
                           trail[n].playerRoomId
                               \in {trail[n].moved[h].oldRoom, trail[n].moved[h].nextStep}

\* The lines of one kind a tick has about one actor
LinesOfKind(tick, charId, kind) ==
    {n \in LinesAbout(tick, charId) : tick.messages[n].kind = kind}

\* C12: for every actor a tick moves, the tick has a leaving line exactly when
\* the player stands in the room the actor held before the tick, an entering
\* line exactly when the player stands in the room the actor holds after it,
\* and never more than one line
C12_NarrationOnlyWhereTheActorWas ==
    lastTick.op = "tick" =>
        \A h \in DOMAIN lastTick.moved :
            LET charId == lastTick.moved[h].charId
            IN  /\ LinesOfKind(lastTick, charId, "leaves") # {}
                    <=> lastTick.playerRoomId = lastTick.before[charId]
                /\ LinesOfKind(lastTick, charId, "enters") # {}
                    <=> lastTick.playerRoomId = lastTick.after[charId]
                /\ Cardinality(LinesAbout(lastTick, charId)) <= 1

\* The room an actor stands in when a tick makes its hop number h: the hops
\* are made in the order of the list
RoomAtHop(tick, h, charId) ==
    IF \E k \in 1..(h - 1) : tick.moved[k].charId = charId
    THEN tick.after[charId] ELSE tick.before[charId]

\* An entry of an actor's memory log for a hop of a tick
Remembers(charId, tick, h) ==
    \E n \in 1..Len(characters[charId].memory) :
        /\ characters[charId].memory[n].witnessedCharId = tick.moved[h].charId
        /\ characters[charId].memory[n].roomId = tick.moved[h].nextStep
        /\ characters[charId].memory[n].time = tick.time

\* C13: for every actor a tick moves, every other actor standing in the room
\* it is moved to has a memory entry for the move, wherever the player is and
\* whatever the text of the scheduled action
C13_EveryMoveIsWitnessed ==
    lastTick.op = "tick" =>
        \A h \in DOMAIN lastTick.moved :
            \A charId \in DOMAIN characters \ {lastTick.moved[h].charId} :
                RoomAtHop(lastTick, h, charId) = lastTick.moved[h].nextStep
                    => Remembers(charId, lastTick, h)

\* The entry a timetable resolves to at the time of a tick, 0 for none
TargetAt(tick, charId) ==
    GetTargetEvent(cachedSchedule[charId], TimeToMinutes(tick.time))

TargetRoomAt(tick, charId) == cachedSchedule[charId][TargetAt(tick, charId)].locationId

\* An actor whom the schedule sends somewhere else at the time of a tick
Sent(tick, charId) ==
    /\ scheduled
    /\ charId \in DOMAIN cachedSchedule
    /\ TargetAt(tick, charId) # 0
    /\ TargetRoomAt(tick, charId) # tick.before[charId]

\* A room that is not known or that no walk along the exits leads to
OutOfReach(startId, targetId) == targetId \notin rooms \/ ~Reachable(startId, targetId)

\* C14: an actor whose target is unknown or out of reach keeps its room and
\* gets no line in the tick, and every other actor the schedule sends
\* somewhere it can reach is moved in the same tick
C14_StuckActorDoesNotStopTheTick ==
    lastTick.op = "tick" =>
        LET tick == lastTick
        IN  \A charId \in DOMAIN characters :
                Sent(tick, charId) =>
                    IF OutOfReach(lastTick.before[charId], TargetRoomAt(tick, charId))
                    THEN /\ lastTick.after[charId] = lastTick.before[charId]
                         /\ LinesAbout(lastTick, charId) = {}
                    ELSE /\ HopsOf(lastTick, charId) # {}
                         /\ Edge(lastTick.before[charId], lastTick.after[charId])

\* c1 is sent to a room out of reach and stays, and c2 is moved by the same tick
C14_Witness ==
    /\ lastTick.op = "tick"
    /\ LET tick == lastTick
       IN  /\ Sent(tick, "c1")
           /\ OutOfReach(lastTick.before["c1"], TargetRoomAt(tick, "c1"))
           /\ lastTick.after["c1"] = lastTick.before["c1"]
           /\ HopsOf(lastTick, "c2") # {}

\* The action text of the events the caller inserts with addEvent
Spontaneous == "does something spontaneous"

\* The places (actor, index) of the inserted events in the cached schedule
InsertedAt ==
    { p \in UNION { {<<charId, n>> : n \in 1..Len(cachedSchedule[charId])} :
                        charId \in DOMAIN cachedSchedule } :
          cachedSchedule[p[1]][p[2]].action = Spontaneous }

\* The last tick has an intent for the actor toward the room
HeadsTo(charId, locationId) ==
    \E i \in IntentsFor(charId) : sq.intents[i].to = locationId

ScanEndsAt(events, n, currentMinutes) ==
    /\ \A k \in 1..n : TimeToMinutes(events[k].time) <= currentMinutes
    /\ n < Len(events) => TimeToMinutes(events[n + 1].time) > currentMinutes

Count(events, e) == Cardinality({n \in 1..Len(events) : events[n] = e})

\* The events of the timetables before and after a step
EventsOf(schedule) ==
    UNION { {schedule[charId][n] : n \in 1..Len(schedule[charId])} :
               charId \in DOMAIN schedule }

\* A step that is a call of addEvent
AddEventStep == sq'.op = "addEvent" /\ (sq' # sq \/ cachedSchedule' # cachedSchedule)

\* C16: addEvent returns false and changes no timetable when no schedule is
\* cached or the actor has no timetable; otherwise it returns true, the
\* actor's timetable has every event as often as before and the new event once
\* more, and the other timetables are unchanged
C16_AddEventGrowsOneTimetable ==
    [][AddEventStep =>
          IF ~scheduled \/ sq'.charId \notin DOMAIN cachedSchedule
          THEN sq'.result = FALSE /\ cachedSchedule' = cachedSchedule
          ELSE LET new == Event(sq'.time, Spontaneous, sq'.locationId)
                   before == cachedSchedule[sq'.charId]
                   after == cachedSchedule'[sq'.charId]
               IN  /\ sq'.result = TRUE
                   /\ DOMAIN cachedSchedule' = DOMAIN cachedSchedule
                   /\ Len(after) = Len(before) + 1
                   /\ \A e \in EventsOf(cachedSchedule) \cup {new} :
                         Count(after, e) = Count(before, e) + (IF e = new THEN 1 ELSE 0)
                   /\ \A other \in DOMAIN cachedSchedule \ {sq'.charId} :
                         cachedSchedule'[other] = cachedSchedule[other]]_vars

\* addEvent has returned true for c1 while c2 has a timetable too
C16_Witness ==
    /\ sq.op = "addEvent" /\ sq.result = TRUE /\ sq.charId = "c1"
    /\ added = 1
    /\ DOMAIN cachedSchedule = {"c1", "c2"}
    /\ \E n \in 1..Len(cachedSchedule["c1"]) :
          cachedSchedule["c1"][n] = Event(sq.time, Spontaneous, sq.locationId)

\* C17: after schedule generation and after any addEvent calls, every actor's
\* timetable is in ascending order of time of day, whatever time strings
\* addEvent was given
C17_TimetablesSortedByTimeOfDay ==
    scheduled => \A charId \in DOMAIN cachedSchedule : SortedByMinutes(cachedSchedule[charId])

\* C19: the schedule work has just returned holds a timetable for every
\* character of the cast it was called with, in test-data mode too
C19_WorkSchedulesTheWholeCast ==
    sq.op = "work" =>
        \A i \in 1..Len(sq.cast) : sq.cast[i].id \in DOMAIN cachedSchedule

-----------------------------------------------------------------------------
(* Claims about dispatch and the cached schedule *)

\* The task types ExecutiveDirector.dispatch routes
RoutedTypes == {"get_characters", "get_story", "get_schedule", "tick", "start_production"}

\* A step that is a dispatch of a task of a type that is not routed
UnroutedDispatchStep ==
    sq' # sq /\ sq'.op = "dispatch" /\ sq'.type \notin RoutedTypes

\* C18: dispatch of a task whose type is not routed returns null, does not
\* throw, and leaves positions, schedules and memory logs as they are
C18_UnroutedTaskReturnsNull ==
    [][UnroutedDispatchStep =>
          /\ sq'.result = NullReference
          /\ ~sq'.threw
          /\ UNCHANGED <<characterPositions, characters, scheduled, cachedSchedule,
                         scheduleKeys>>]_vars

\* A task of an unknown type has been dispatched after the schedule was made
\* and a tick has moved somebody
C18_Witness ==
    /\ sq.op = "dispatch" /\ sq.type = "get_weather"
    /\ scheduled
    /\ lastTick.op = "tick" /\ lastTick.moved # <<>>

\* What a caller sees in a schedule it holds
Seen(reference) ==
    IF reference = CachedReference THEN cachedSchedule ELSE reference.contents

\* A step that is a get_schedule task, handed to the Scheduler or dispatched
GetScheduleStep ==
    sq' # sq /\ sq'.op \in {"handleTask", "dispatch"} /\ sq'.type = "get_schedule"

\* C20: a get_schedule task returns null before work has returned and the very
\* schedule work returned after it, through handleTask and through dispatch
\* alike, and the events addEvent inserts later are seen in the schedule that
\* was returned
C20_GetScheduleReturnsTheCachedSchedule ==
    /\ [][GetScheduleStep =>
             sq'.result = IF scheduled THEN held.work ELSE NullReference]_vars
    /\ [](\A caller \in {"handleTask", "dispatch"} :
             held[caller].obj \notin {"none", Null}
                 => /\ held[caller] = held.work
                    /\ Seen(held[caller]) = cachedSchedule)

\* Both callers hold the schedule, addEvent has just inserted an event for
\* c1, and the event is seen in what dispatch returned
C20_Witness ==
    /\ held.handleTask = CachedReference /\ held.dispatch = CachedReference
    /\ sq.op = "addEvent" /\ sq.result = TRUE /\ added = 1
    /\ \E n \in 1..Len(Seen(held.dispatch)["c1"]) :
          Seen(held.dispatch)["c1"][n].time = sq.time

-----------------------------------------------------------------------------
(* Claims about what a player command may change                            *)

\* C23: of all that a player command does, only the movement step of its tick
\* changes an actor's currentRoomId: the tick at the end of a command finds
\* every actor in the room the actor stood in when the command was entered
C23_OnlyTheTickMovesActors ==
    [][lastTick'.before = RoomsOf(characters)]_vars

-----------------------------------------------------------------------------
(* Claims about the dialogue Destiny serves                                 *)

\* The generateContent calls a step starts
StartedJobs ==
    {j \in DOMAIN llm : llm[j].promise # "pending" /\ llm'[j].promise = "pending"}

\* A step in which a caller makes a getTalkResponse call for the actor
TalkCallStep(charId) ==
    /\ FreeCalls(DestinyState) # {}
    /\ calls'[NextCall].op = "talk"
    /\ calls'[NextCall].charId = charId

PoolReady(charId) ==
    characters[charId].responsesReady /\ Len(characters[charId].cachedResponses) > 0

\* C26: getTalkResponse for an actor with a ready, non-empty pool returns the
\* first entry of the pool and removes that entry and no other; when the pool
\* is empty after it, the pool is marked not ready and at most one refill is
\* started (one that is registered as the actor's generation in flight), and
\* no generation is started otherwise
C26_ReadyPoolServesItsFirstEntry ==
    [][\A charId \in DOMAIN characters :
          TalkCallStep(charId) /\ PoolReady(charId) =>
              LET pool == characters[charId].cachedResponses
                  call == calls'[NextCall]
              IN  /\ call.promise = "fulfilled"
                  /\ call.value = pool[1].text /\ call.typeof = pool[1].typeof
                  /\ characters'[charId].cachedResponses = Tail(pool)
                  /\ characters'[charId].memory = characters[charId].memory
                  /\ IF Len(pool) = 1
                     THEN /\ ~characters'[charId].responsesReady
                          /\ Cardinality(StartedJobs) <= 1
                          /\ \A j \in StartedJobs :
                                /\ llm'[j].kind = "pool" /\ llm'[j].charId = charId
                                /\ pendingLLMCalls'[charId] = j
                     ELSE /\ characters'[charId].responsesReady
                          /\ StartedJobs = {}]_vars

\* A call has just taken the last entry of c1's pool: it returned the entry,
\* the pool is empty and not ready, and the call started the refill
C26_Witness ==
    \E k \in DOMAIN calls :
        /\ calls[k].op = "talk" /\ calls[k].charId = "c1"
        /\ calls[k].promise = "fulfilled" /\ ~calls[k].noPool
        /\ calls[k].value = <<"r1">> /\ calls[k].made = 1
        /\ characters["c1"].cachedResponses = <<>>
        /\ ~characters["c1"].responsesReady
        /\ pendingLLMCalls["c1"] # 0

\* A getTalkResponse call that found no pool and a refill in flight: of the
\* calls that are waiting, these are the ones that have awaited a generation
\* they did not start themselves
JoinedRefill(call) ==
    call.op = "talk" /\ call.promise = "pending" /\ call.noPool /\ call.awaited > call.made

\* C27: a getTalkResponse call that finds no pool while a refill is in flight
\* awaits that refill and retries once: it awaits no second generation before
\* it returns
C27_AwaitsTheRefillAndRetriesOnce ==
    /\ [][\A charId \in DOMAIN characters :
             TalkCallStep(charId) /\ ~PoolReady(charId) /\ pendingLLMCalls[charId] # 0
                 => /\ calls'[NextCall].promise = "pending"
                    /\ calls'[NextCall].awaited = 1 /\ calls'[NextCall].made = 0
                    /\ \E n \in DOMAIN llm'[pendingLLMCalls[charId]].waiters :
                          llm'[pendingLLMCalls[charId]].waiters[n] = NextCall]_vars
    /\ [](\A k \in DOMAIN calls : JoinedRefill(calls[k]) => calls[k].awaited <= 1)

\* The memory entry a getEventResponse call was made for
EntryOf(chars, call) == chars[call.memoryAt[1]].memory[call.memoryAt[2]]

\* A step in which a caller makes a getEventResponse call for an actor of the cast
EventCallStep ==
    /\ FreeCalls(DestinyState) # {}
    /\ calls'[NextCall].op = "event"
    /\ calls'[NextCall].charId \in DOMAIN characters

\* C28: getEventResponse returns the reaction cached on the entry, and starts
\* no generation, when there is one; otherwise the string it returns, generated
\* or the factual fallback, is cached on the entry when the call returns
C28_EventResponseIsCachedOnTheEntry ==
    /\ [][EventCallStep /\ EntryOf(characters, calls'[NextCall]).cachedResponse # <<>>
             => /\ calls'[NextCall].promise = "fulfilled"
                /\ calls'[NextCall].value
                       = EntryOf(characters, calls'[NextCall]).cachedResponse
                /\ StartedJobs = {}]_vars
    /\ [](\A k \in DOMAIN calls :
             /\ calls[k].op = "event" /\ calls[k].promise = "fulfilled"
             /\ calls[k].charId \in DOMAIN characters
             => EntryOf(characters, calls[k]).cachedResponse = calls[k].value)

-----------------------------------------------------------------------------
(* Claims about the ticks of the game and the generations beside them       *)

\* The entries of the memory logs without the reactions cached on them
Recorded(chars) ==
    [c \in DOMAIN chars |->
        [n \in 1..Len(chars[c].memory) |->
            [chars[c].memory[n] EXCEPT !.cachedResponse = <<>>]]]

\* The state of the world: where the actors are, by their own record and by
\* the graph's, what they have witnessed, the schedule and the clock
World(chars, positions, timeStr) ==
    [rooms |-> RoomsOf(chars), positions |-> positions, recorded |-> Recorded(chars),
     schedule |-> cachedSchedule, time |-> timeStr]

\* A step that runs a tick
TickStep == lastTick' # lastTick

\* The intents of a tick that have a next step from the actor's recorded position
Movable(tick, positions) ==
    SelectSeq(SchedulerTick(tick.time, tick.before),
              LAMBDA move : GetNextStep(CurrentRoomOf([positions |-> positions], move),
                                        move.to) # Null)

\* C21: the world changes in the steps that run a tick and in no other (not
\* when a generation settles, not while a talk command waits for its answer),
\* and a tick is whole when its step ends: every intent with a next step has
\* made its hop, in order, both records of the actor's room show it, the lines
\* for the player are in the tick's result, and every witness has its entry
C21_TicksRunWholeAndApart ==
    [][/\ ~TickStep =>
              World(characters', characterPositions', time')
                  = World(characters, characterPositions, time)
       /\ TickStep =>
              LET tick == lastTick'
                  movable == Movable(tick, characterPositions)
              IN  /\ Len(tick.moved) = Len(movable)
                  /\ \A h \in DOMAIN tick.moved :
                        LET hop == tick.moved[h]
                            action == GetScheduledAction(hop.charId, tick.time)
                        IN  /\ hop.charId = movable[h].charId
                            /\ hop.oldRoom = characterPositions[hop.charId]
                            /\ hop.nextStep = GetNextStep(hop.oldRoom, movable[h].to)
                            /\ characterPositions'[hop.charId] = hop.nextStep
                            /\ characters'[hop.charId].currentRoomId = hop.nextStep
                            /\ tick.playerRoomId = hop.oldRoom
                                   <=> LinesOfKind(tick, hop.charId, "leaves") # {}
                            /\ tick.playerRoomId = hop.nextStep
                                   <=> LinesOfKind(tick, hop.charId, "enters") # {}
                            /\ action \notin {Null, ""} =>
                                  \A c \in DOMAIN characters \ {hop.charId} :
                                      RoomAtHop(tick, h, c) = hop.nextStep =>
                                          \E n \in 1..Len(characters'[c].memory) :
                                              /\ n > Len(characters[c].memory)
                                              /\ characters'[c].memory[n].witnessedCharId
                                                     = hop.charId
                                              /\ characters'[c].memory[n].time = tick.time
                                              /\ characters'[c].memory[n].roomId
                                                     = hop.nextStep]_vars

\* A tick has run, moved an actor and recorded the move for a witness while a
\* talk command entered before it is still waiting for its answer
C21_Witness ==
    /\ \E k \in DOMAIN calls : calls[k].op = "talk" /\ calls[k].promise = "pending"
    /\ lastTick.op = "tick" /\ lastTick.moved # <<>>
    /\ \E c \in DOMAIN characters :
          \E n \in 1..Len(characters[c].memory) :
              characters[c].memory[n].time = lastTick.time

\* The actors with everything the generations have given them taken away: no
\* pool, no reaction cached on an entry
Plain(chars) ==
    [c \in DOMAIN chars |->
        [chars[c] EXCEPT !.cachedResponses = <<>>, !.responsesReady = FALSE,
                         !.memory = Recorded(chars)[c]]]

\* The turn of a command (the clock advanced, then the tick) taken from the
\* state with no generation ever settled and none in flight
PlainTurn(playerRoomId) ==
    LET a == AdvanceTime(Plain(characters), time, isGameOver, 5)
        d == [characters |-> a.characters,
              pendingLLMCalls |-> [c \in DOMAIN characters |-> 0],
              llm |-> [j \in DOMAIN llm |-> NoJob],
              calls |-> [k \in DOMAIN calls |-> NoCall],
              last |-> 1, full |-> FALSE]
    IN  [time |-> a.time, g |-> DirectorTick(d, characterPositions, a.time, playerRoomId)]

\* The entries a step appends to the memory logs
Appended ==
    UNION { { <<c, n>> : n \in (Len(characters[c].memory) + 1)..Len(characters'[c].memory) } :
            c \in DOMAIN characters }

\* C22: what the generations did (pools, cached reactions, calls in flight,
\* succeeded or failed) has no part in the simulation. A step without a tick
\* leaves the world as it is; a step with a tick leaves the world, the hops
\* and the lines exactly as the same turn leaves them when taken from the
\* state with no generation settled and none in flight; and the tick returns
\* with the reaction to every entry it appended still in flight
C22_GenerationsNeverSteerTheSimulation ==
    [][/\ ~TickStep =>
              World(characters', characterPositions', time')
                  = World(characters, characterPositions, time)
       /\ TickStep =>
              \E turn \in {PlainTurn(currentRoomId')} :
                  /\ World(characters', characterPositions', time')
                         = World(turn.g.d.characters, turn.g.positions, turn.time)
                  /\ lastTick'.moved = turn.g.moved
                  /\ lastTick'.messages = turn.g.messages
                  /\ \A at \in Appended :
                        \E j \in DOMAIN llm' :
                            /\ llm'[j].promise = "pending" /\ llm'[j].kind = "reaction"
                            /\ llm'[j].memoryAt = at]_vars

\* A tick has moved an actor past a witness whose pool and first reaction
\* had failed, the player has been told, and the reaction to the new entry is
\* in flight
C22_Witness ==
    /\ lastTick.op = "tick" /\ lastTick.moved # <<>> /\ lastTick.messages # <<>>
    /\ \E c \in DOMAIN characters :
          /\ ~characters[c].responsesReady
          /\ characters[c].memory[1].cachedResponse = <<>>
          /\ \E j \in DOMAIN llm :
                /\ llm[j].promise = "pending" /\ llm[j].kind = "reaction"
                /\ llm[j].memoryAt = <<c, Len(characters[c].memory)>>
                /\ characters[c].memory[llm[j].memoryAt[2]].time = lastTick.time

\* C24: a memory log only grows at its end: in every step each log keeps the
\* entries it had, in their places, and nothing of such an entry changes but
\* the reaction cached on it
C24_MemoryLogsOnlyGrowAtTheEnd ==
    [][\A c \in DOMAIN characters :
          /\ Len(characters'[c].memory) >= Len(characters[c].memory)
          /\ \A n \in 1..Len(characters[c].memory) :
                [characters'[c].memory[n] EXCEPT !.cachedResponse = <<>>]
                    = [characters[c].memory[n] EXCEPT !.cachedResponse = <<>>]]_vars

\* A log of two entries, the second appended by a tick of the game, whose
\* second entry has had its reaction attached after the tick
C24_Witness ==
    \E c \in DOMAIN characters :
        /\ Len(characters[c].memory) = 2
        /\ characters[c].memory[2].time # T(18, 0)
        /\ characters[c].memory[2].cachedResponse = <<"e1">>

-----------------------------------------------------------------------------
(* Claims about the world graph's own state                                 *)

\* A step that is a call of Grafitti.initialize
InitializeStep ==
    q'.op = "initialize" /\ <<q, rooms, adjacency>>' # <<q, rooms, adjacency>>

\* Where the queries find the rooms next to a room once a step is over
ExitValuesAfter(id) == ExitValues(id)'

\* C25: initialize replaces the whole graph and clears everything recorded
\* before: after it the rooms and the exits are those of the locations passed
\* and of nothing else, and no actor's position is recorded
C25_InitializeClearsAllPriorState ==
    [][InitializeStep =>
          /\ rooms' = DOMAIN q'.locations
          /\ adjacency' = q'.locations
          /\ characterPositions' = <<>>]_vars

\* C25 as the code has it: initialize replaces the rooms and the exits by those
\* of the locations passed, so that every room the queries look at is one of
\* them, and it leaves the recorded positions of the actors as they were
C25_InitializeReplacesRoomsAndExits ==
    [][InitializeStep =>
          /\ rooms' = DOMAIN q'.locations
          /\ adjacency' = q'.locations
          /\ \A id \in AnyRoomId :
                ExitValuesAfter(id) = IF id \in DOMAIN q'.locations
                                      THEN [i \in 1..Len(q'.locations[id]) |->
                                               q'.locations[id][i].to]
                                      ELSE <<>>
          /\ characterPositions' = characterPositions]_vars

\* initialize has just replaced a graph of three rooms by the map of two while
\* c1 is recorded in the dining room, a room the new map does not have
C25_Witness ==
    /\ q.op = "initialize" /\ q.locations = SmallGraph
    /\ rooms = {"foyer", "living_room"} /\ adjacency = SmallGraph
    /\ "c1" \in DOMAIN characterPositions /\ characterPositions["c1"] = "dining_room"

\* The answer findPath gives once a step is over
FindPathAfter(startId, targetId) == FindPath(startId, targetId)'

\* C32: findPath is deterministic and stable. What it answers for a start and
\* a target is fixed by the locations the graph was initialized from: a call
\* returns the answer the graph had for the pair before the call, and no query
\* and no move or placing of an actor changes the answer for any pair, so two
\* calls for the same pair return the same path whatever was asked or moved
\* between them
C32_FindPathIsStable ==
    [][/\ q'.op = "findPath" => q'.path = FindPath(q'.start, q'.target)
       /\ ~InitializeStep =>
             \A s, t \in AnyRoomId : FindPathAfter(s, t) = FindPath(s, t)
       /\ InitializeStep => rooms' = DOMAIN q'.locations /\ adjacency' = q'.locations]_vars

\* findPath has answered with a path of two hops through the room c1 was
\* moved to before the call
C32_Witness ==
    /\ q.op = "findPath" /\ Len(q.path) = 2
    /\ "c1" \in DOMAIN characterPositions /\ characterPositions["c1"] = q.path[1]

-----------------------------------------------------------------------------
(* Claims about the action narrated for a moved actor                       *)

\* The entries of a timetable that no entry is earlier than, by time of day
Earliest(events) ==
    {n \in 1..Len(events) :
        \A m \in 1..Len(events) : TimeToMinutes(events[n].time) <= TimeToMinutes(events[m].time)}

\* C30: for every timetable of the schedule and every time of day, the action
\* getScheduledAction gives for the actor is the text (in lower case) of the
\* event Scheduler.tick resolves as the actor's target, and the text of the
\* earliest entry when tick resolves none
C30_ScheduledActionIsOfTheTargetEvent ==
    scheduled =>
        \A charId \in DOMAIN cachedSchedule, t \in TickTimes :
            LET events == cachedSchedule[charId]
                target == GetTargetEvent(events, TimeToMinutes(t))
            IN  Len(events) > 0 =>
                    IF target # 0
                    THEN GetScheduledAction(charId, t) = ToLowerCase(events[target].action)
                    ELSE \E n \in Earliest(events) :
                            GetScheduledAction(charId, t) = ToLowerCase(events[n].action)

-----------------------------------------------------------------------------
(* Claims about an actor's way to its target                                *)

\* The rooms one exit away from a set of rooms of the graph
RoomsNextTo(S) ==
    UNION { {adjacency[a][i].to : i \in 1..Len(adjacency[a])} : a \in S \cap DOMAIN adjacency }

\* The rooms at most k exits away from a room
RECURSIVE Near(_, _)
Near(startId, k) ==
    IF k = 0 THEN {startId}
    ELSE LET prev == Near(startId, k - 1) IN prev \cup RoomsNextTo(prev)

\* The target can be walked to from the start along the exits of the graph
Joined(startId, targetId) == targetId \in Near(startId, Cardinality(rooms))

\* The least number of exits between the start and a target joined to it
Distance(startId, targetId) ==
    CHOOSE k \in 0..Cardinality(rooms) :
        /\ targetId \in Near(startId, k)
        /\ \A j \in 0..(k - 1) : targetId \notin Near(startId, j)

\* C29: an actor is either at its target or on its way there. In every tick
\* and for every actor whose resolved target can be reached from the room the
\* actor stands in: an actor at its target stays and makes no hop; an actor
\* elsewhere ends the tick one hop nearer, the travel time that is left being
\* five minutes less, whether the target is the one of the tick before or a
\* new one
C29_EveryTickBringsTheActorOneHopNearer ==
    lastTick.op = "tick" =>
        \A c \in DOMAIN lastTick.before \cap DOMAIN cachedSchedule :
            TargetAt(lastTick, c) # 0 /\ TargetRoomAt(lastTick, c) \in rooms
            /\ Joined(lastTick.before[c], TargetRoomAt(lastTick, c)) =>
                LET target == TargetRoomAt(lastTick, c)
                    from == lastTick.before[c]
                    to == lastTick.after[c]
                IN  IF from = target
                    THEN to = target /\ HopsOf(lastTick, c) = {}
                    ELSE /\ Edge(from, to)
                         /\ Distance(to, target) = Distance(from, target) - 1
                         /\ GetTravelTime(to, target) = GetTravelTime(from, target) - 5

-----------------------------------------------------------------------------
(* Claims about the two records of an actor's room                          *)

\* C33: after every command and every tick the room Grafitti records for an
\* actor (getCharacterRoom) is the actor's currentRoomId
C33_GrafittiRecordsTheActorsRoom ==
    \A c \in DOMAIN characters \cap DOMAIN characterPositions :
        characterPositions[c] = characters[c].currentRoomId

-----------------------------------------------------------------------------
(* Claims about the five-minute grid of the timetables                      *)

\* The events the normalisation pass of Scheduler.work may be given
NormalizedInputs ==
    DynEvents \cup {BaseTimeline[n] : n \in 1..Len(BaseTimeline)}

\* The distance in minutes between two times of day
MinutesApart(a, b) ==
    IF TimeToMinutes(a) >= TimeToMinutes(b)
    THEN TimeToMinutes(a) - TimeToMinutes(b)
    ELSE TimeToMinutes(b) - TimeToMinutes(a)

\* C31: every event time target resolution reads from the timetables is a
\* whole multiple of five minutes, whether it came from a generated schedule,
\* from the test data or from addEvent; the normalisation moves a time by at
\* most two and a half minutes and never puts the later of two events first
C31_TimesAreOnTheFiveMinuteGrid ==
    /\ scheduled =>
          \A c \in DOMAIN cachedSchedule : \A n \in 1..Len(cachedSchedule[c]) :
              TimeToMinutes(cachedSchedule[c][n].time) % 5 = 0
    /\ \A e \in NormalizedInputs :
          2 * MinutesApart(NormalizeEvent(e).time, e.time) <= 5
    /\ \A e1, e2 \in NormalizedInputs :
          TimeToMinutes(e1.time) <= TimeToMinutes(e2.time) =>
              TimeToMinutes(NormalizeEvent(e1).time) <= TimeToMinutes(NormalizeEvent(e2).time)

-----------------------------------------------------------------------------
(* Claims about the shape of the paths and the adjacency queries            *)

\* C34: every path findPath returns is a walk from start to target: its first
\* element is a direct exit target of start, every later element one of the
\* element before it, the last element is the target, no room is listed twice,
\* start is not listed, and every element is a room of the initialized graph
C34_PathsAreWalksThroughTheGraph ==
    (q.start # Null /\ Len(q.path) > 0) =>
        /\ IsWalk(q.start, q.path)
        /\ q.path[Len(q.path)] = q.target
        /\ \A i, j \in 1..Len(q.path) : i # j => q.path[i] # q.path[j]
        /\ \A i \in 1..Len(q.path) : q.path[i] # q.start /\ q.path[i] \in rooms

\* A path of two hops through a room that has an exit back to start and an
\* exit to an id that is no room of the graph
C34_Witness ==
    /\ q.start # Null /\ Len(q.path) = 2
    /\ Edge(q.path[1], q.start)
    /\ \E a \in rooms : Edge(a, UnknownRoom)

\* C35: the adjacency queries agree for all ids a and b: areConnected(a, b)
\* holds exactly when getDirection(a, b) is not null, and whenever a and b are
\* connected and different, findPath(a, b) is the one-element path [b]
C35_AdjacencyQueriesAgree ==
    q.start # Null =>
        /\ AreConnected(q.start, q.target) <=> GetDirection(q.start, q.target) # Null
        /\ (AreConnected(q.start, q.target) /\ q.start # q.target) => q.path = <<q.target>>

\* C35 as the code has it: areConnected(a, b) holds exactly when
\* getDirection(a, b) is not null, and whenever a and b are connected and
\* different and b is a room of the graph, findPath(a, b) is the path [b]; for
\* an exit that leads to an id that is no room, findPath(a, b) is empty
C35_AdjacencyQueriesAgreeOnRooms ==
    q.start # Null =>
        /\ AreConnected(q.start, q.target) <=> GetDirection(q.start, q.target) # Null
        /\ (AreConnected(q.start, q.target) /\ q.start # q.target) =>
              q.path = IF q.target \in rooms THEN <<q.target>> ELSE <<>>

\* A query for a room that is the second exit of start, and a graph with an
\* exit that leads to an id that is no room
C35_Witness ==
    /\ q.start \in rooms /\ q.start # q.target /\ q.target \in rooms
    /\ Len(adjacency[q.start]) = 2 /\ adjacency[q.start][2].to = q.target
    /\ GetDirection(q.start, q.target) = "east"
    /\ q.path = <<q.target>>
    /\ \E a \in rooms : AreConnected(a, UnknownRoom)

-----------------------------------------------------------------------------
(* Claims about who witnesses the moves of a tick                           *)

-----------------------------------------------------------------------------
(* Claims about the queue of generations                                    *)

\* The requests that have entered _generateInternal and have not settled
Executing == {n \in DOMAIN generationQueue :
                 generationQueue[n].phase \in {"waitingInit", "generating"}}

\* C37: generation requests are serialized. At most one request is inside
\* _generateInternal at any time, the connection is GENERATING exactly while
\* one request awaits the model, and the requests start in the order in which
\* generate was called
C37_GenerationsAreSerialized ==
    /\ Cardinality(Executing) <= 1
    /\ theConnection.state = "GENERATING" <=>
          \E n \in DOMAIN generationQueue : generationQueue[n].phase = "generating"
    /\ \A n, m \in DOMAIN generationQueue :
          (n < m /\ generationQueue[m].startedAt > 0) =>
              /\ generationQueue[n].startedAt > 0
              /\ generationQueue[n].startedAt < generationQueue[m].startedAt
              /\ generationQueue[m].phase \in {"waitingInit", "generating"}
                    => Settled(generationQueue[n])

\* The second request awaits the model while a third is queued behind it and
\* the first has failed
C37_Witness ==
    /\ Len(generationQueue) = 3
    /\ generationQueue[1].phase = "rejected"
    /\ generationQueue[2].phase = "generating"
    /\ generationQueue[3].phase = "queued"
    /\ theConnection.state = "GENERATING"

\* A step in which the promise generate returned for request n settles
AttemptEnds(n) ==
    /\ ~Settled(generationQueue[n])
    /\ Settled(generationQueue'[n])

\* C38: a failed generation never wedges the queue. Whenever an attempt ends,
\* in success or in failure, the connection is READY again if it was READY
\* when the attempt began; when it ends in failure no other request is
\* touched, so the failure reaches the caller of that request alone; and
\* every request in the queue is started in its turn and settles, whatever
\* became of the requests before it
C38_FailedGenerationLeavesTheQueueRunning ==
    /\ [][\A n \in DOMAIN generationQueue :
             AttemptEnds(n) =>
                /\ (generationQueue[n].phase = "generating" \/ theConnection.state = "READY")
                      => theConnection'.state = "READY"
                /\ generationQueue'[n].phase = "rejected" =>
                      \A m \in DOMAIN generationQueue \ {n} :
                          generationQueue'[m] = generationQueue[m]]_vars
    /\ \A n \in 1..MaxRequests :
          [](n \in DOMAIN generationQueue =>
                <>(/\ n \in DOMAIN generationQueue
                   /\ generationQueue[n].startedAt > 0
                   /\ Settled(generationQueue[n])))

\* The model has failed the first request, the connection is READY again and
\* the request queued behind it has been answered by the model
C38_Witness ==
    /\ Len(generationQueue) >= 2
    /\ generationQueue[1].phase = "rejected"
    /\ generationQueue[1].result = "generation failed"
    /\ generationQueue[2].phase = "resolved"
    /\ generationQueue[2].result = "text"
    /\ generationQueue[2].startedAt = 2
    /\ theConnection.state = "READY"

-----------------------------------------------------------------------------
(* Claims about the validated grid                                          *)

\* The exits of the cached rooms, as pairs of a room's place and an exit's
ExitsOfGrid(grid) ==
    UNION { {<<r, i>> : i \in 1..Len(grid[r].exits)} : r \in 1..Len(grid) }

\* C39: after validateAndFixGrid every exit of every room leads to a room of
\* the grid, and every exit in a direction that has an opposite is answered:
\* if room A has the exit d to room B, B has the exit opposite to d back to A
C39_ValidatedGridIsBidirectional ==
    cachedRooms # <<>> =>
        /\ \A e \in ExitsOfGrid(cachedRooms) :
              LET exit == cachedRooms[e[1]].exits[e[2]]
                  t == RoomById(cachedRooms, exit.to)
              IN  /\ t # 0
                  /\ GetOppositeDir(exit.dir) # Null =>
                        ExitTo(cachedRooms[t].exits, GetOppositeDir(exit.dir))
                            = cachedRooms[e[1]].id
        /\ ReciprocalIssues(AdjacencyOf(cachedRooms)) = {}


\* Minutes on the game clock since the 18:00 start, midnight counted as the
\* end of the evening
Elapsed(timeStr) ==
    (TimeToMinutes(timeStr) + 24 * 60 - TimeToMinutes(T(18, 0))) % (24 * 60)

\* C40: game over is absorbing: the clock only moves forward, five minutes at
\* a time, from 18:00 to midnight, and once isGameOver is true no command,
\* entered later or still waiting, changes the clock, the player's room or
\* where any actor is
C40_GameOverIsAbsorbing ==
    /\ [](Elapsed(time) <= Elapsed(T(0, 0)))
    /\ [][ /\ time' # time => Elapsed(time') = Elapsed(time) + 5
           /\ isGameOver => /\ isGameOver'
                            /\ time' = time
                            /\ currentRoomId' = currentRoomId
                            /\ characterPositions' = characterPositions
                            /\ RoomsOf(characters)' = RoomsOf(characters) ]_vars

====
